---- MODULE Spec2Model ----
(***************************************************************************)
(* Model of the syringe-pump controller (pump_gui.py: SimPumpComm,         *)
(* PumpCtrl) and of the action queue / sequencer of the electrochemistry   *)
(* GUI (gui_script.py: ElectrochemGUI).                                    *)
(*                                                                         *)
(* Volumes are integers on a grid whose unit is the calibration floor of   *)
(* configure_calibration (1e-6 uL in the source, SYRINGE_FLOOR here); the  *)
(* controller only ever uses ratios of volumes, so the arithmetic is the   *)
(* source's, computed exactly (round() is Python's round-half-to-even).    *)
(***************************************************************************)
EXTENDS Integers, Sequences, FiniteSets, TLC

(* ------------------------------ bounds -------------------------------- *)
MaxSteps == 3
MaxSyringe == 3
MaxVol == 4
MaxQueue == 2
MaxThreads == 2
MaxDoc == 3
MaxPoints == 2
MaxVars == 3

(* ------------------------- program constants -------------------------- *)
DEFAULT_COM_PORT == 8
DEFAULT_BAUD == 9600
DEFAULT_DEV == 1
DEFAULT_STEPS == 100000
DEFAULT_SYRINGE == 1250
SPEED_MIN == 1
SPEED_MAX == 40
SIM_DEFAULT_SPEED == 20
SIM_DEFAULT_VALVE == 1
SIM_VALVE_MAX == 9
SYRINGE_FLOOR == 1
NoSpeed == 0
PREFERRED_STEPS_PER_STROKE == 181490
PREFERRED_SYRINGE_UL == 1000
NoRunner == 0
StaleRunner == -1

Max(a, b) == IF a >= b THEN a ELSE b
Min(a, b) == IF a <= b THEN a ELSE b

(* Python round(n/d) for d > 0: round half to even. *)
RoundHalfEven(n, d) ==
  LET q == n \div d
      r == n % d
  IN  IF 2 * r < d THEN q
      ELSE IF 2 * r > d THEN q + 1
      ELSE IF q % 2 = 0 THEN q ELSE q + 1

(* A volume as an exact fraction num/den (den > 0). *)
Vol(v) == [num |-> v, den |-> 1]

(* --------------------------- pump commands ---------------------------- *)
CmdZ == [op |-> "Z", arg |-> 0]
CmdS(n) == [op |-> "S", arg |-> n]
CmdI(port) == [op |-> "I", arg |-> port]
CmdA(target) == [op |-> "A", arg |-> target]
CmdD(steps) == [op |-> "D", arg |-> steps]

(* ------------------------- simulator backend -------------------------- *)
NoBackend ==
  [kind |-> "none", connected |-> FALSE, speed |-> 0, valve_port |-> 0,
   steps_per_stroke |-> 0, syringe_ul |-> 0, plunger_steps |-> 0]

SimPumpComm(steps_per_stroke, syringe_ul) ==
  [kind |-> "sim", connected |-> FALSE, speed |-> SIM_DEFAULT_SPEED,
   valve_port |-> SIM_DEFAULT_VALVE, steps_per_stroke |-> steps_per_stroke,
   syringe_ul |-> syringe_ul, plunger_steps |-> 0]

RealPumpComm ==
  [kind |-> "real", connected |-> TRUE, speed |-> 0, valve_port |-> 0,
   steps_per_stroke |-> 0, syringe_ul |-> 0, plunger_steps |-> 0]

(* SimPumpComm._process: the effect of one command on the simulator. *)
SimProcess(b, c) ==
  IF ~b.connected THEN b
  ELSE IF c.op = "Z" THEN [b EXCEPT !.plunger_steps = 0]
  ELSE IF c.op = "S" THEN
    [b EXCEPT !.speed = Max(SPEED_MIN, Min(SPEED_MAX, c.arg))]
  ELSE IF c.op = "I" THEN
    IF 1 <= c.arg /\ c.arg <= SIM_VALVE_MAX
      THEN [b EXCEPT !.valve_port = c.arg] ELSE b
  ELSE IF c.op = "A" THEN
    [b EXCEPT !.plunger_steps = Min(b.steps_per_stroke, Max(0, c.arg))]
  ELSE IF c.op = "D" THEN
    LET move == Min(b.plunger_steps, Max(0, c.arg))
    IN  [b EXCEPT !.plunger_steps = Max(0, b.plunger_steps - move)]
  ELSE b

(* ----------------------------- PumpCtrl ------------------------------- *)
(* Every controller method is an operator from the controller p (and its  *)
(* arguments) to a result: the controller afterwards, whether the call    *)
(* raised, and the commands that reached the backend during the call.     *)
Res(p, raised, sent) == [pump |-> p, raised |-> raised, sent |-> sent]

PumpCtrlInit(use_sim) ==
  [use_sim |-> use_sim, connected |-> FALSE, dev |-> DEFAULT_DEV,
   com_port |-> DEFAULT_COM_PORT, baud |-> DEFAULT_BAUD,
   steps_per_stroke |-> DEFAULT_STEPS, syringe_ul |-> DEFAULT_SYRINGE,
   current_speed |-> NoSpeed, backend |-> NoBackend, plunger_steps |-> 0]

sync_backend_plunger(p) ==
  IF p.backend.kind = "sim"
    THEN [p EXCEPT !.backend.plunger_steps = p.plunger_steps]
    ELSE p

set_plunger_steps(p, steps) ==
  sync_backend_plunger(
    [p EXCEPT !.plunger_steps = Max(0, Min(steps, p.steps_per_stroke))])

(* Mutant: the step count is rounded down. *)
ul_to_steps_floor(p, ul) ==
  Max(0, (p.steps_per_stroke * ul.num) \div (p.syringe_ul * ul.den))

ul_to_steps(p, ul) ==
  Max(0, RoundHalfEven(p.steps_per_stroke * ul.num, p.syringe_ul * ul.den))

steps_to_ul(p, steps) ==
  IF p.steps_per_stroke <= 0 THEN Vol(0)
  ELSE [num |-> steps * p.syringe_ul, den |-> p.steps_per_stroke]

steps_for_volume(p, ul) == ul_to_steps(p, Vol(ul))

volume_for_steps(p, steps) == steps_to_ul(p, steps)

current_volume_ul(p) == steps_to_ul(p, p.plunger_steps)

remaining_capacity_ul(p) ==
  steps_to_ul(p, Max(0, p.steps_per_stroke - p.plunger_steps))

(* Mutant: a connect on a connected controller stores the new port and    *)
(* baud rate.                                                             *)
connect_restore(p, com_port, baud, dev, has_com, outcome) ==
  IF p.connected
    THEN Res([p EXCEPT !.com_port = com_port, !.baud = baud, !.dev = dev],
             FALSE, <<>>)
  ELSE
    LET p1 == [p EXCEPT !.com_port = com_port, !.baud = baud, !.dev = dev]
    IN  IF p1.use_sim \/ ~has_com THEN
          LET b == [SimPumpComm(p1.steps_per_stroke, p1.syringe_ul)
                      EXCEPT !.connected = TRUE]
          IN  Res(sync_backend_plunger(
                    [p1 EXCEPT !.backend = b, !.connected = TRUE]),
                  FALSE, <<>>)
        ELSE IF outcome = "dispatch_fails" THEN Res(p1, TRUE, <<>>)
        ELSE IF outcome = "init_fails" THEN
          Res([p1 EXCEPT !.backend = NoBackend], TRUE, <<>>)
        ELSE
          Res(sync_backend_plunger(
                [p1 EXCEPT !.backend = RealPumpComm, !.connected = TRUE]),
              FALSE, <<>>)

(* connect: has_com is the platform flag HAS_COM; outcome is what the     *)
(* COM driver does in real mode ("ok", "dispatch_fails", "init_fails").   *)
connect(p, com_port, baud, dev, has_com, outcome) ==
  IF p.connected THEN Res(p, FALSE, <<>>)
  ELSE
    LET p1 == [p EXCEPT !.com_port = com_port, !.baud = baud, !.dev = dev]
    IN  IF p1.use_sim \/ ~has_com THEN
          LET b == [SimPumpComm(p1.steps_per_stroke, p1.syringe_ul)
                      EXCEPT !.connected = TRUE]
          IN  Res(sync_backend_plunger(
                    [p1 EXCEPT !.backend = b, !.connected = TRUE]),
                  FALSE, <<>>)
        ELSE IF outcome = "dispatch_fails" THEN Res(p1, TRUE, <<>>)
        ELSE IF outcome = "init_fails" THEN
          Res([p1 EXCEPT !.backend = NoBackend], TRUE, <<>>)
        ELSE
          Res(sync_backend_plunger(
                [p1 EXCEPT !.backend = RealPumpComm, !.connected = TRUE]),
              FALSE, <<>>)

(* Mutant: disconnecting forgets the plunger position. *)
disconnect_rezero(p) ==
  IF ~p.connected THEN Res(p, FALSE, <<>>)
  ELSE Res([p EXCEPT !.connected = FALSE, !.backend = NoBackend,
                     !.plunger_steps = 0],
           FALSE, <<>>)

disconnect(p) ==
  IF ~p.connected THEN Res(p, FALSE, <<>>)
  ELSE Res([p EXCEPT !.connected = FALSE, !.backend = NoBackend],
           FALSE, <<>>)

(* _send: accepted says whether the (real) driver took the command; the   *)
(* simulator always takes it.  A refused command is swallowed.            *)
send(p, cmd, accepted) ==
  IF ~p.connected THEN Res(p, TRUE, <<>>)
  ELSE IF p.backend.kind = "sim" THEN
    Res([p EXCEPT !.backend = SimProcess(p.backend, cmd)], FALSE, <<cmd>>)
  ELSE IF accepted THEN Res(p, FALSE, <<cmd>>)
  ELSE Res(p, FALSE, <<>>)

initialize(p, acc) ==
  LET r == send(p, CmdZ, acc[1])
  IN  IF r.raised THEN r
      ELSE Res(set_plunger_steps(r.pump, 0), FALSE, r.sent)

valve_to(p, port, acc) == send(p, CmdI(port), acc[1])

(* Mutant: the calibration is replaced without re-deriving the plunger.   *)
configure_calibration_keep(p, steps_per_stroke, syringe_ul) ==
  Res([p EXCEPT !.steps_per_stroke = Max(1, steps_per_stroke),
                !.syringe_ul = Max(SYRINGE_FLOOR, syringe_ul)],
      FALSE, <<>>)

configure_calibration(p, steps_per_stroke, syringe_ul) ==
  LET steps == Max(1, steps_per_stroke)
      volume == Max(SYRINGE_FLOOR, syringe_ul)
      current_volume == current_volume_ul(p)
      p1 == [p EXCEPT !.steps_per_stroke = steps, !.syringe_ul = volume]
      p2 == set_plunger_steps(
              p1, Min(ul_to_steps(p1, current_volume), p1.steps_per_stroke))
  IN  IF p2.backend.kind = "sim"
        THEN Res([p2 EXCEPT !.backend.steps_per_stroke = p2.steps_per_stroke,
                            !.backend.syringe_ul = p2.syringe_ul],
                 FALSE, <<>>)
        ELSE Res(p2, FALSE, <<>>)

set_speed(p, s, acc) ==
  LET s1 == Max(SPEED_MIN, Min(SPEED_MAX, s))
  IN  send([p EXCEPT !.current_speed = s1], CmdS(s1), acc[1])

(* Mutant: the capacity check comes after the speed command.              *)
aspirate_ul_late_check(p, ul, acc) ==
  IF ul < 0 THEN Res(p, TRUE, <<>>)
  ELSE
    LET delta_steps == ul_to_steps(p, Vol(ul))
        target_steps == p.plunger_steps + delta_steps
        r1 == IF p.current_speed # NoSpeed
                THEN send(p, CmdS(p.current_speed), acc[1])
                ELSE Res(p, FALSE, <<>>)
    IN  IF delta_steps <= 0 THEN Res(p, FALSE, <<>>)
        ELSE IF r1.raised THEN r1
        ELSE IF target_steps > p.steps_per_stroke
          THEN Res(r1.pump, TRUE, r1.sent)
        ELSE
          LET r2 == send(r1.pump, CmdA(target_steps), acc[2])
          IN  IF r2.raised THEN Res(r2.pump, TRUE, r1.sent \o r2.sent)
              ELSE Res(set_plunger_steps(r2.pump, target_steps), FALSE,
                       r1.sent \o r2.sent)

(* Mutant: the aspirate command carries the step delta. *)
aspirate_ul_relative(p, ul, acc) ==
  IF ul < 0 THEN Res(p, TRUE, <<>>)
  ELSE
    LET delta_steps == ul_to_steps(p, Vol(ul))
        target_steps == p.plunger_steps + delta_steps
    IN  IF delta_steps <= 0 THEN Res(p, FALSE, <<>>)
        ELSE IF target_steps > p.steps_per_stroke THEN Res(p, TRUE, <<>>)
        ELSE
          LET r1 == IF p.current_speed # NoSpeed
                      THEN send(p, CmdS(p.current_speed), acc[1])
                      ELSE Res(p, FALSE, <<>>)
              r2 == send(r1.pump, CmdA(delta_steps), acc[2])
          IN  IF r1.raised THEN r1
              ELSE IF r2.raised THEN Res(r2.pump, TRUE, r1.sent \o r2.sent)
              ELSE Res(set_plunger_steps(r2.pump, target_steps), FALSE,
                       r1.sent \o r2.sent)

aspirate_ul(p, ul, acc) ==
  IF ul < 0 THEN Res(p, TRUE, <<>>)
  ELSE
    LET delta_steps == ul_to_steps(p, Vol(ul))
        target_steps == p.plunger_steps + delta_steps
    IN  IF delta_steps <= 0 THEN Res(p, FALSE, <<>>)
        ELSE IF target_steps > p.steps_per_stroke THEN Res(p, TRUE, <<>>)
        ELSE
          LET r1 == IF p.current_speed # NoSpeed
                      THEN send(p, CmdS(p.current_speed), acc[1])
                      ELSE Res(p, FALSE, <<>>)
              r2 == send(r1.pump, CmdA(target_steps), acc[2])
          IN  IF r1.raised THEN r1
              ELSE IF r2.raised THEN Res(r2.pump, TRUE, r1.sent \o r2.sent)
              ELSE Res(set_plunger_steps(r2.pump, target_steps), FALSE,
                       r1.sent \o r2.sent)

(* Mutant: the dispense command goes out but the position is kept.       *)
dispense_ul_keep(p, ul, acc) ==
  IF ul < 0 THEN Res(p, TRUE, <<>>)
  ELSE
    LET delta_steps == ul_to_steps(p, Vol(ul))
    IN  IF delta_steps <= 0 THEN Res(p, FALSE, <<>>)
        ELSE IF delta_steps > p.plunger_steps THEN Res(p, TRUE, <<>>)
        ELSE send(p, CmdD(delta_steps), acc[2])

dispense_ul(p, ul, acc) ==
  IF ul < 0 THEN Res(p, TRUE, <<>>)
  ELSE
    LET delta_steps == ul_to_steps(p, Vol(ul))
    IN  IF delta_steps <= 0 THEN Res(p, FALSE, <<>>)
        ELSE IF delta_steps > p.plunger_steps THEN Res(p, TRUE, <<>>)
        ELSE
          LET r1 == IF p.current_speed # NoSpeed
                      THEN send(p, CmdS(p.current_speed), acc[1])
                      ELSE Res(p, FALSE, <<>>)
              r2 == send(r1.pump, CmdD(delta_steps), acc[2])
          IN  IF r1.raised THEN r1
              ELSE IF r2.raised THEN Res(r2.pump, TRUE, r1.sent \o r2.sent)
              ELSE Res(set_plunger_steps(
                         r2.pump, r2.pump.plunger_steps - delta_steps),
                       FALSE, r1.sent \o r2.sent)

(* ------------------------------ inputs -------------------------------- *)
(* (com port, baud) pairs of the connection form *)
ConnectInputs == {<<DEFAULT_COM_PORT, DEFAULT_BAUD>>, <<3, 38400>>}
ConnectOutcomes == {"ok", "dispatch_fails", "init_fails"}
SpeedInputs == {0, 41}
ValvePorts == {2, 10}
(* Whether the driver takes the first and the second command of a call:   *)
(* only the real driver can refuse one.                                   *)
Accepts(p) ==
  IF p.backend.kind = "real" THEN [1..2 -> BOOLEAN] ELSE {[i \in 1..2 |-> TRUE]}
CalSteps == 0..MaxSteps
CalSyringe == 0..MaxSyringe
(* Volumes an operator may type: a grid of cells, one cell being a volume *)
(* unit for a small syringe and a share of the syringe for a large one.   *)
Cell(syringe_ul) == Max(1, syringe_ul \div MaxSyringe)
VolumeInputs(syringe_ul) == {k * Cell(syringe_ul) : k \in -1..MaxVol}

(* ------------------------------- state -------------------------------- *)
VARIABLES
  HAS_COM,            \* platform flag: the COM driver could be imported
  pump,               \* the PumpCtrl object (with its backend)
  call,               \* the most recent call of interest: [op, a1, a2]
  raised,             \* whether the most recent pump call raised
  sent,               \* the commands that reached the backend during it
  measurement_queue,  \* ElectrochemGUI.measurement_queue
  is_running,         \* ElectrochemGUI.is_running
  current_runner,     \* ElectrochemGUI.current_runner (thread owning it)
  pump_busy,          \* ElectrochemGUI.pump_busy
  threads,            \* the background threads, by slot
  stop_requested      \* history: stop_queue has taken effect at least once

pumpVars == <<HAS_COM, pump, call, raised, sent>>
seqVars == <<measurement_queue, is_running, current_runner, pump_busy,
             threads, stop_requested>>
vars == <<HAS_COM, pump, call, raised, sent, measurement_queue, is_running,
          current_runner, pump_busy, threads, stop_requested>>

Call(op, a1, a2) == [op |-> op, a1 |-> a1, a2 |-> a2]
Other == Call("other", 0, 0)

Threads == 1..MaxThreads

(* SerialMeasurementRunner.__init__: no connection, no data points; exit  *)
(* (how execute ended), line and appended (the text last read and the     *)
(* points it added), rows (data rows saved) and wrote (the status         *)
(* execute_queue gave the item) are history.                              *)
NewRunner ==
  [connection |-> "none", data_points |-> <<>>, line |-> "none",
   appended |-> 0, exit |-> "none", rows |-> 0, wrote |-> "none"]

FreeThread ==
  [kind |-> "free", pc |-> "none", i |-> 0, snap |-> <<>>,
   runner_running |-> FALSE, fn |-> Other, written |-> 0, stopAt |-> 0,
   stopRun |-> 0, runner |-> NewRunner]

(* A thread that has ended; its slot is not used again, so MaxThreads     *)
(* bounds the number of threads started in one behaviour.                 *)
DoneThread == [FreeThread EXCEPT !.kind = "done"]

(* A step that is no controller call. *)
NoCall == call' = Other /\ raised' = FALSE /\ sent' = <<>>

(* The effect of one controller call on the state. *)
Apply(r, c) ==
  /\ pump' = r.pump
  /\ raised' = r.raised
  /\ sent' = r.sent
  /\ call' = c
  /\ UNCHANGED HAS_COM

InitSeq ==
  /\ measurement_queue = <<>>
  /\ is_running = FALSE
  /\ current_runner = NoRunner
  /\ pump_busy = FALSE
  /\ threads = [t \in Threads |-> FreeThread]
  /\ stop_requested = FALSE

(* ======================= PumpCtrl, called directly ==================== *)
InitPump ==
  /\ HAS_COM \in BOOLEAN
  /\ pump = PumpCtrlInit(~HAS_COM)
  /\ call = Call("init", 0, 0)
  /\ raised = FALSE
  /\ sent = <<>>
  /\ InitSeq

CallConnect ==
  \E sim_mode \in BOOLEAN, form \in ConnectInputs,
     outcome \in ConnectOutcomes :
    /\ Apply(connect([pump EXCEPT !.use_sim = sim_mode \/ ~HAS_COM],
                     form[1], form[2], DEFAULT_DEV, HAS_COM, outcome),
             Call("connect", form[1], form[2]))
    /\ UNCHANGED seqVars

CallDisconnect ==
  /\ Apply(disconnect(pump), Call("disconnect", 0, 0))
  /\ UNCHANGED seqVars

CallConfigure ==
  \E steps \in CalSteps, syr \in CalSyringe :
    /\ Apply(configure_calibration(pump, steps, syr),
             Call("configure_calibration", steps, syr))
    /\ UNCHANGED seqVars

CallInitialize ==
  \E acc \in Accepts(pump) :
    /\ Apply(initialize(pump, acc), Call("initialize", 0, 0))
    /\ UNCHANGED seqVars

CallSetSpeed ==
  \E s \in SpeedInputs, acc \in Accepts(pump) :
    /\ Apply(set_speed(pump, s, acc), Call("set_speed", s, 0))
    /\ UNCHANGED seqVars

CallValveTo ==
  \E port \in ValvePorts, acc \in Accepts(pump) :
    /\ Apply(valve_to(pump, port, acc), Call("valve_to", port, 0))
    /\ UNCHANGED seqVars

CallAspirate ==
  \E ul \in VolumeInputs(pump.syringe_ul), acc \in Accepts(pump) :
    /\ Apply(aspirate_ul(pump, ul, acc), Call("aspirate_ul", ul, 0))
    /\ UNCHANGED seqVars

CallDispense ==
  \E ul \in VolumeInputs(pump.syringe_ul), acc \in Accepts(pump) :
    /\ Apply(dispense_ul(pump, ul, acc), Call("dispense_ul", ul, 0))
    /\ UNCHANGED seqVars

NextPump ==
  \/ CallConnect
  \/ CallDisconnect
  \/ CallConfigure
  \/ CallInitialize
  \/ CallSetSpeed
  \/ CallValveTo
  \/ CallAspirate
  \/ CallDispense

SpecPump == InitPump /\ [][NextPump]_vars

(* ------------------- the stand-alone pump window ---------------------- *)
(* PumpGUI.on_apply_cal: the calibration fields are assigned to the       *)
(* controller directly, for entries that are positive numbers.            *)
on_apply_cal ==
  \E steps \in 1..MaxSteps, syr \in 1..MaxSyringe :
    /\ pump' = [pump EXCEPT !.steps_per_stroke = steps, !.syringe_ul = syr]
    /\ call' = Call("on_apply_cal", steps, syr)
    /\ raised' = FALSE
    /\ sent' = <<>>
    /\ UNCHANGED HAS_COM
    /\ UNCHANGED seqVars

(* The pump window in simulator mode. *)
InitSim == InitPump /\ ~HAS_COM

NextSim ==
  \/ CallConnect
  \/ CallDisconnect
  \/ CallConfigure
  \/ CallInitialize
  \/ CallAspirate
  \/ CallDispense
  \/ on_apply_cal

SpecSim == InitSim /\ [][NextSim]_vars

C2_Delta(v) == RoundHalfEven(pump.steps_per_stroke * v, pump.syringe_ul)

C2_OverCapacity ==
  \/ /\ call'.op = "aspirate_ul"
     /\ pump.plunger_steps + C2_Delta(call'.a1) > pump.steps_per_stroke
  \/ /\ call'.op = "dispense_ul"
     /\ C2_Delta(call'.a1) > pump.plunger_steps

C2_RejectedBeforeSend ==
  [][C2_OverCapacity =>
       /\ raised'
       /\ sent' = <<>>
       /\ pump'.plunger_steps = pump.plunger_steps
       /\ pump'.backend = pump.backend]_vars

(* A connected controller with a speed set has just refused a positive    *)
(* volume: the refusal is the capacity check and nothing else.            *)
C2_Witness ==
  /\ call.op \in {"aspirate_ul", "dispense_ul"}
  /\ call.a1 > 0
  /\ pump.connected
  /\ pump.current_speed # NoSpeed
  /\ raised

(* ========================= the action queue =========================== *)
PumpTypes ==
  {"PUMP_INIT", "PUMP_SET_SPEED", "PUMP_VALVE", "PUMP_ASPIRATE",
   "PUMP_DISPENSE"}
Terminal == {"completed", "failed", "stopped"}

(* A queue item: arg is the pause duration, the volume, the valve port or *)
(* the speed of a SET_SPEED; speed is the speed of an aspirate/dispense.  *)
QueueItem(type, arg, speed) ==
  [type |-> type, status |-> "pending", arg |-> arg, speed |-> speed]

(* The statuses _pump_pending_plunger_steps lets through. *)
ProjectedStatuses == {"pending", "in_progress"}

RECURSIVE project(_, _, _, _)
project(q, p, k, steps) ==
  IF k > Len(q) THEN steps
  ELSE IF q[k].status \notin ProjectedStatuses THEN project(q, p, k + 1, steps)
  ELSE IF q[k].type = "PUMP_INIT" THEN project(q, p, k + 1, 0)
  ELSE IF q[k].type = "PUMP_ASPIRATE" THEN
    project(q, p, k + 1,
            Min(p.steps_per_stroke, steps + steps_for_volume(p, q[k].arg)))
  ELSE IF q[k].type = "PUMP_DISPENSE" THEN
    project(q, p, k + 1, Max(0, steps - steps_for_volume(p, q[k].arg)))
  ELSE project(q, p, k + 1, steps)

pump_pending_plunger_steps(q, p) == project(q, p, 1, p.plunger_steps)

(* Mutant: the pre-check looks at the plunger only, not at the queue.     *)
aspirate_admitted_now(q, p, volume) ==
  ~(p.plunger_steps + steps_for_volume(p, volume) > p.steps_per_stroke)

(* The capacity pre-check of queue_pump_aspirate. *)
aspirate_admitted(q, p, volume) ==
  ~(pump_pending_plunger_steps(q, p) + steps_for_volume(p, volume)
      > p.steps_per_stroke)

(* A UI callback that touches the queue only; c is what it records. *)
QueueOnly(c) ==
  /\ call' = c
  /\ raised' = FALSE
  /\ sent' = <<>>
  /\ UNCHANGED <<HAS_COM, pump, is_running, current_runner,
                 pump_busy, threads, stop_requested>>

add_pump_action_to_queue(item, c) ==
  /\ measurement_queue' = Append(measurement_queue, item)
  /\ QueueOnly(c)

queue_pump_init ==
  add_pump_action_to_queue(QueueItem("PUMP_INIT", 0, 0), Other)

queue_pump_set_speed(speeds) ==
  \E speed \in speeds :
    add_pump_action_to_queue(QueueItem("PUMP_SET_SPEED", speed, 0), Other)

queue_pump_valve(ports) ==
  \E port \in ports :
    add_pump_action_to_queue(QueueItem("PUMP_VALVE", port, 0), Other)

queue_pump_aspirate(volumes, speeds) ==
  \E volume \in volumes, speed \in speeds :
    IF aspirate_admitted(measurement_queue, pump, volume)
      THEN add_pump_action_to_queue(
             QueueItem("PUMP_ASPIRATE", volume, speed),
             Call("queue_pump_aspirate", volume, speed))
      ELSE /\ UNCHANGED measurement_queue
           /\ QueueOnly(Call("queue_pump_aspirate", volume, speed))

queue_pump_dispense(volumes, speeds) ==
  \E volume \in volumes, speed \in speeds :
    add_pump_action_to_queue(QueueItem("PUMP_DISPENSE", volume, speed),
                             Call("queue_pump_dispense", volume, speed))

add_pause_to_queue(durations) ==
  \E seconds \in durations :
    /\ seconds >= 0
    /\ measurement_queue' =
         Append(measurement_queue, QueueItem("PAUSE", seconds, 0))
    /\ QueueOnly(Other)

(* Mutant: the new item is put at the head of the list. *)
add_to_queue_front ==
  /\ measurement_queue' = <<QueueItem("CV", 0, 0)>> \o measurement_queue
  /\ QueueOnly(Other)

add_to_queue ==
  /\ measurement_queue' = Append(measurement_queue, QueueItem("CV", 0, 0))
  /\ QueueOnly(Other)

(* load_queue: doc is the list of valid entries of the document. *)
load_queue(docs) ==
  \E doc \in docs :
    /\ ~is_running
    /\ doc # <<>>
    /\ measurement_queue' = [k \in 1..Len(doc) |-> [doc[k] EXCEPT !.status = "pending"]]
    /\ QueueOnly(Other)

clear_queue ==
  /\ ~is_running
  /\ measurement_queue' = <<>>
  /\ QueueOnly(Other)

(* --------------------------- starting threads ------------------------- *)
FreeSlots == {t \in Threads : threads[t].kind = "free"}
Slot == CHOOSE t \in FreeSlots : \A u \in FreeSlots : t <= u

Start(th) == threads' = [threads EXCEPT ![Slot] = th]

(* list(self.measurement_queue): the items of the run; a status is read   *)
(* from the live list only, so the snapshot carries none.                 *)
Snapshot(q) == [k \in 1..Len(q) |-> [q[k] EXCEPT !.status = "pending"]]

run_queue ==
  /\ measurement_queue # <<>>
  /\ ~is_running
  /\ FreeSlots # {}
  /\ is_running' = TRUE
  /\ Start([FreeThread EXCEPT !.kind = "queue", !.pc = "check",
                              !.snap = Snapshot(measurement_queue),
                              !.i = 1])
  /\ NoCall
  /\ UNCHANGED <<HAS_COM, pump, measurement_queue,
                 current_runner, pump_busy, stop_requested>>

(* pcs of a worker whose script item is in flight: marked running with   *)
(* the runner not yet built, inside execute, inside the read loop.        *)
InFlight == {"exec", "session", "read"}

(* The items a stop request finds inside execute_pause or inside a pump   *)
(* action (stopAt), or in flight as a script item (stopRun).              *)
StopMarks(th) ==
  IF th.kind = "queue" /\ th.pc \in {"pause_loop", "pump_do"}
    THEN [th EXCEPT !.stopAt = th.i]
  ELSE IF th.kind = "queue" /\ th.pc \in InFlight
    THEN [th EXCEPT !.stopRun = th.i]
  ELSE th

stop_queue ==
  /\ is_running
  /\ is_running' = FALSE
  /\ threads' =
       [t \in Threads |->
          IF t = current_runner
            THEN [StopMarks(threads[t]) EXCEPT !.runner_running = FALSE]
            ELSE StopMarks(threads[t])]
  /\ stop_requested' = TRUE
  /\ NoCall
  /\ UNCHANGED <<HAS_COM, pump, measurement_queue,
                 current_runner, pump_busy>>

run_script_immediately ==
  /\ ~is_running
  /\ FreeSlots # {}
  /\ is_running' = TRUE
  /\ Start([FreeThread EXCEPT !.kind = "script", !.pc = "imm_begin"])
  /\ NoCall
  /\ UNCHANGED <<HAS_COM, pump, measurement_queue,
                 current_runner, pump_busy, stop_requested>>

pump_threaded(fns) ==
  \E fn \in fns :
    /\ ~pump_busy
    /\ FreeSlots # {}
    /\ Start([FreeThread EXCEPT !.kind = "pump", !.pc = "p_begin", !.fn = fn])
    /\ NoCall
    /\ UNCHANGED <<HAS_COM, pump, measurement_queue, is_running,
                   current_runner, pump_busy, stop_requested>>

(* ------------------------ what the threads run ------------------------ *)
(* Two controller calls in a row: the second is skipped if the first      *)
(* raised.                                                                *)
AndThen(r1, r2) ==
  IF r1.raised THEN r1 ELSE Res(r2.pump, r2.raised, r1.sent \o r2.sent)

(* The try block of execute_pump_action, once the connection check passed *)
execute_pump_action(p, item, acc) ==
  IF item.type = "PUMP_INIT" THEN initialize(p, acc)
  ELSE IF item.type = "PUMP_SET_SPEED" THEN set_speed(p, item.arg, acc)
  ELSE IF item.type = "PUMP_VALVE" THEN valve_to(p, item.arg, acc)
  ELSE IF item.type = "PUMP_ASPIRATE" THEN
    LET r1 == set_speed(p, item.speed, acc)
    IN  AndThen(r1, aspirate_ul(r1.pump, item.arg, acc))
  ELSE
    LET r1 == set_speed(p, item.speed, acc)
    IN  AndThen(r1, dispense_ul(r1.pump, item.arg, acc))

(* The pump_on_* and pump_do_* functions handed to pump_threaded; the     *)
(* pump_do_* ones return without a call when the pump is not connected.   *)
pump_fn(p, fn, has_com, acc) ==
  IF fn.op = "pump_on_connect" THEN
    LET r == connect([p EXCEPT !.use_sim = (fn.a1 = 1) \/ ~has_com],
                     DEFAULT_COM_PORT, DEFAULT_BAUD, DEFAULT_DEV, has_com,
                     "ok")
    IN  Res(r.pump, FALSE, r.sent)
  ELSE IF fn.op = "pump_on_disconnect" THEN disconnect(p)
  ELSE IF fn.op = "pump_on_apply_cal" THEN
    configure_calibration(p, fn.a1, fn.a2)
  ELSE IF ~p.connected THEN Res(p, FALSE, <<>>)
  ELSE IF fn.op = "pump_do_init" THEN initialize(p, acc)
  ELSE IF fn.op = "pump_do_set_speed" THEN set_speed(p, fn.a1, acc)
  ELSE IF fn.op = "pump_do_valve" THEN valve_to(p, fn.a1, acc)
  ELSE IF fn.op = "pump_do_aspirate" THEN
    LET r1 == set_speed(p, fn.a2, acc)
    IN  AndThen(r1, aspirate_ul(r1.pump, Max(0, fn.a1), acc))
  ELSE
    LET r1 == set_speed(p, fn.a2, acc)
    IN  AndThen(r1, dispense_ul(r1.pump, Max(0, fn.a1), acc))

(* ------------------------- the queue worker --------------------------- *)
(* A step of a thread runs from one blocking call (a sleep, a wait for    *)
(* the device) to the next.                                               *)
SetThread(t, th) == threads' = [threads EXCEPT ![t] = th]
At(t, kind, pc) == threads[t].kind = kind /\ threads[t].pc = pc
Current(t) == threads[t].snap[threads[t].i]
IsScript(item) == item.type # "PAUSE" /\ item.type \notin PumpTypes

(* Mutant: a failure is not recorded. *)
TerminalStatusLost(item, success) == "completed"

TerminalStatus(item, success) ==
  IF success THEN "completed"
  ELSE IF item.type = "PAUSE" THEN "stopped" ELSE "failed"

(* Mutant: the loop takes the same item again. *)
NextIndexSame(i) == i

NextIndex(i) == i + 1

(* The worker after item i: time.sleep(1), then the loop's next round or  *)
(* the end of the loop.                                                   *)
Advance(th) ==
  [th EXCEPT !.written = th.i, !.i = NextIndex(th.i),
             !.runner_running = FALSE, !.stopRun = 0,
             !.pc = IF NextIndex(th.i) > Len(th.snap)
                      THEN "finish" ELSE "check"]

(* self.measurement_queue[i]['status'] = ...: an index past the end of    *)
(* the live list raises and ends the thread.                              *)
WriteStatusOf(t, th, status) ==
  IF th.i > Len(measurement_queue)
    THEN /\ SetThread(t, DoneThread)
         /\ UNCHANGED measurement_queue
    ELSE /\ measurement_queue' =
              [measurement_queue EXCEPT ![th.i].status = status]
         /\ SetThread(t, Advance(th))

WriteStatus(t, status) == WriteStatusOf(t, threads[t], status)

(* The head of the loop body: the test of is_running, the mark 'running'  *)
(* and the dispatch on the item's type up to the first wait.  A pause of  *)
(* no length and a pump action on a disconnected pump end at once.        *)
WorkerBegin(t) ==
  /\ At(t, "queue", "check")
  /\ LET th == threads[t]
         item == Current(t)
     IN  IF ~is_running THEN
           /\ SetThread(t, [th EXCEPT !.pc = "finish"])
           /\ UNCHANGED <<measurement_queue, pump_busy>>
         ELSE IF th.i > Len(measurement_queue) THEN
           /\ SetThread(t, DoneThread)
           /\ UNCHANGED <<measurement_queue, pump_busy>>
         ELSE IF item.type = "PAUSE" /\ item.arg <= 0 THEN
           /\ WriteStatus(t, TerminalStatus(item, TRUE))
           /\ UNCHANGED pump_busy
         ELSE IF item.type \in PumpTypes /\ ~pump.connected THEN
           /\ WriteStatus(t, TerminalStatus(item, FALSE))
           /\ UNCHANGED pump_busy
         ELSE
           /\ measurement_queue' =
                [measurement_queue EXCEPT ![th.i].status = "running"]
           /\ SetThread(t, [th EXCEPT !.pc =
                IF item.type = "PAUSE" THEN "pause_loop"
                ELSE IF item.type \in PumpTypes THEN "pump_do"
                ELSE "exec"])
           /\ pump_busy' = (pump_busy \/ item.type \in PumpTypes)
  /\ NoCall
  /\ UNCHANGED <<HAS_COM, pump, is_running, current_runner, stop_requested>>

(* self.current_runner = SerialMeasurementRunner(...) *)
WorkerExec(t) ==
  /\ At(t, "queue", "exec")
  /\ SetThread(t, [threads[t] EXCEPT !.runner_running = TRUE,
                                     !.runner = NewRunner,
                                     !.pc = "session"])
  /\ current_runner' = t
  /\ NoCall
  /\ UNCHANGED <<HAS_COM, pump, measurement_queue, is_running, pump_busy,
                 stop_requested>>

(* execute_pause returns: the loop has ended (time is up or is_running    *)
(* went False) and the final test of is_running decides the result.       *)
WorkerPause(t) ==
  /\ At(t, "queue", "pause_loop")
  /\ WriteStatus(t, TerminalStatus(Current(t), is_running))
  /\ NoCall
  /\ UNCHANGED <<HAS_COM, pump, is_running, current_runner, pump_busy,
                 stop_requested>>

(* The controller calls of execute_pump_action, its finally clause and    *)
(* the status it leaves.                                                  *)
WorkerPumpDo(t) ==
  /\ At(t, "queue", "pump_do")
  /\ \E acc \in Accepts(pump) :
       LET r == execute_pump_action(pump, Current(t), acc) IN
         /\ Apply(r, Call("execute_pump_action", threads[t].i, 0))
         /\ WriteStatus(t, TerminalStatus(Current(t), ~r.raised))
  /\ pump_busy' = FALSE
  /\ UNCHANGED <<is_running, current_runner, stop_requested>>

(* execute has returned ok to execute_queue, with the worker at th: the   *)
(* status is written; the write failing leaves current_runner set.        *)
SessionEnd(t, th, ok) ==
  /\ WriteStatusOf(t, th, TerminalStatus(Current(t), ok))
  /\ call' = Call("execute", IF ok THEN 1 ELSE 0, threads[t].i)
  /\ current_runner' =
       IF threads[t].i <= Len(measurement_queue) THEN NoRunner
       ELSE IF current_runner = t THEN StaleRunner ELSE current_runner
  /\ raised' = FALSE
  /\ sent' = <<>>
  /\ UNCHANGED <<HAS_COM, pump, is_running, pump_busy, stop_requested>>

(* SerialMeasurementRunner.execute as a whole: ok is its success flag. *)
WorkerSession(t) ==
  /\ At(t, "queue", "session")
  /\ \E ok \in BOOLEAN : SessionEnd(t, threads[t], ok)

(* self.is_running = False at the end of execute_queue *)
WorkerFinish(t) ==
  /\ At(t, "queue", "finish")
  /\ is_running' = FALSE
  /\ SetThread(t, DoneThread)
  /\ NoCall
  /\ UNCHANGED <<HAS_COM, pump, measurement_queue, current_runner,
                 pump_busy, stop_requested>>

(* --------------------- the immediate script worker -------------------- *)
ImmBegin(t) ==
  /\ At(t, "script", "imm_begin")
  /\ current_runner' = t
  /\ SetThread(t, [threads[t] EXCEPT !.runner_running = TRUE,
                                     !.pc = "imm_session"])
  /\ NoCall
  /\ UNCHANGED <<HAS_COM, pump, measurement_queue, is_running,
                 pump_busy, stop_requested>>

(* execute returns and the finally clause resets current_runner *)
ImmEnd(t) ==
  /\ At(t, "script", "imm_session")
  /\ current_runner' = NoRunner
  /\ SetThread(t, [threads[t] EXCEPT !.runner_running = FALSE,
                                     !.pc = "finalize"])
  /\ NoCall
  /\ UNCHANGED <<HAS_COM, pump, measurement_queue, is_running,
                 pump_busy, stop_requested>>

(* finalize, run by the UI thread *)
Finalize(t) ==
  /\ At(t, "script", "finalize")
  /\ is_running' = FALSE
  /\ SetThread(t, DoneThread)
  /\ NoCall
  /\ UNCHANGED <<HAS_COM, pump, measurement_queue,
                 current_runner, pump_busy, stop_requested>>

(* ----------------------- the immediate pump thread -------------------- *)
PumpThreadBegin(t) ==
  /\ At(t, "pump", "p_begin")
  /\ pump_busy' = TRUE
  /\ SetThread(t, [threads[t] EXCEPT !.pc = "p_do"])
  /\ NoCall
  /\ UNCHANGED <<HAS_COM, pump, measurement_queue, is_running,
                 current_runner, stop_requested>>

(* The call of fn and the finally clause of run *)
PumpThreadDo(t) ==
  /\ At(t, "pump", "p_do")
  /\ \E acc \in Accepts(pump) :
       Apply(pump_fn(pump, threads[t].fn, HAS_COM, acc), threads[t].fn)
  /\ pump_busy' = FALSE
  /\ SetThread(t, DoneThread)
  /\ UNCHANGED <<measurement_queue, is_running, current_runner,
                 stop_requested>>

(* ====================== the sequencer, run and stop =================== *)
(* The controller the main window builds on a platform without COM, and   *)
(* the same controller once the start-up auto-connect has gone through.   *)
GuiPump ==
  configure_calibration(PumpCtrlInit(TRUE), PREFERRED_STEPS_PER_STROKE,
                        PREFERRED_SYRINGE_UL).pump
AutoConnected ==
  pump_fn(GuiPump, Call("pump_on_connect", 1, 0), FALSE,
          [k \in 1..2 |-> TRUE]).pump

InitGui(pumps) ==
  /\ HAS_COM = FALSE
  /\ pump \in pumps
  /\ call = Call("init", 0, 0)
  /\ raised = FALSE
  /\ sent = <<>>
  /\ InitSeq

(* What the operator types in the run/stop scenarios. *)
SeqPauses == {1}
SeqVolumes == {600}
SeqSpeeds == {SIM_DEFAULT_SPEED}

InitRun == InitGui({GuiPump, AutoConnected})

WorkerStep(t) ==
  \/ WorkerBegin(t)
  \/ WorkerExec(t)
  \/ WorkerPause(t)
  \/ WorkerPumpDo(t)
  \/ WorkerSession(t)
  \/ WorkerFinish(t)

ImmStep(t) == ImmBegin(t) \/ ImmEnd(t) \/ Finalize(t)

(* The operator builds the queue, up to MaxQueue items, before the first  *)
(* thread is started.                                                     *)
Fresh == \A t \in Threads : threads[t].kind = "free"
Building == Fresh /\ Len(measurement_queue) < MaxQueue

(* No thread is alive, and the queue is shorter than n. *)
Idle == \A t \in Threads : threads[t].kind \in {"free", "done"}
Room(n) == Idle /\ Len(measurement_queue) < n

NextSeq ==
  \/ Building /\ add_pause_to_queue(SeqPauses)
  \/ Building /\ add_to_queue
  \/ run_queue
  \/ stop_queue
  \/ clear_queue
  \/ run_script_immediately
  \/ \E t \in Threads :
       \/ WorkerBegin(t) \/ WorkerExec(t) \/ WorkerPause(t)
       \/ WorkerSession(t) \/ WorkerFinish(t)
       \/ ImmStep(t)

SpecSeq == InitGui({AutoConnected}) /\ [][NextSeq]_vars

(* ================ the sequencer, runs that nobody stops =============== *)
NextRun ==
  \/ Room(MaxDoc) /\ add_pause_to_queue(SeqPauses)
  \/ Room(MaxDoc) /\ add_to_queue
  \/ Room(MaxDoc) /\ queue_pump_aspirate(SeqVolumes, SeqSpeeds)
  \/ Room(MaxDoc) /\ queue_pump_dispense(SeqVolumes, SeqSpeeds)
  \/ run_queue
  \/ run_script_immediately
  \/ \E t \in Threads : WorkerStep(t) \/ ImmStep(t)

SpecRun == InitRun /\ [][NextRun]_vars

(* ================= the sequencer, planning a pump run ================= *)
(* Queue documents: up to MaxDoc pump items. *)
PlanVolume == 600
PlanItems ==
  {QueueItem("PUMP_INIT", 0, 0),
   QueueItem("PUMP_ASPIRATE", PlanVolume, SIM_DEFAULT_SPEED),
   QueueItem("PUMP_DISPENSE", PlanVolume, SIM_DEFAULT_SPEED)}
PlanDocs == UNION {[1..n -> PlanItems] : n \in 1..MaxDoc}
PlanWorkerStep(t) == WorkerBegin(t) \/ WorkerPumpDo(t) \/ WorkerFinish(t)

PumpThreadStep(t) == PumpThreadBegin(t) \/ PumpThreadDo(t)

NextPlan ==
  \/ Idle /\ load_queue(PlanDocs)
  \/ Room(MaxDoc + 1) /\ queue_pump_init
  \/ Room(MaxDoc + 1) /\ queue_pump_aspirate({0, PlanVolume}, SeqSpeeds)
  \/ Room(MaxDoc + 1) /\ queue_pump_dispense({PlanVolume}, SeqSpeeds)
  \/ run_queue
  \/ \E t \in Threads : PlanWorkerStep(t)

SpecPlan == InitRun /\ [][NextPlan]_vars

(* ============ the sequencer and the immediate pump actions ============ *)
(* The buttons of the pump panel. *)
BusyFns ==
  {Call("pump_on_connect", 1, 0),
   Call("pump_on_disconnect", 0, 0),
   Call("pump_do_init", 0, 0),
   Call("pump_do_set_speed", SPEED_MAX + 1, 0),
   Call("pump_do_valve", SIM_DEFAULT_VALVE + 1, 0),
   Call("pump_do_aspirate", PlanVolume, SIM_DEFAULT_SPEED),
   Call("pump_do_dispense", PlanVolume, SIM_DEFAULT_SPEED)}

NextBusy ==
  \/ Building /\ queue_pump_init
  \/ Building /\ queue_pump_set_speed({SPEED_MAX + 1})
  \/ Building /\ queue_pump_valve({SIM_DEFAULT_VALVE + 1})
  \/ Building /\ queue_pump_aspirate({PlanVolume}, SeqSpeeds)
  \/ Building /\ queue_pump_dispense({PlanVolume}, SeqSpeeds)
  \/ run_queue
  \/ pump_threaded(BusyFns)
  \/ \E t \in Threads : PlanWorkerStep(t) \/ PumpThreadStep(t)

SpecBusy == InitRun /\ [][NextBusy]_vars

(* ============ the sequencer, one aspirate-pause-dispense run ========== *)
(* Calibrations, volumes that fit in the syringe, and speeds. *)
ScenarioCals ==
  {<<DEFAULT_STEPS, DEFAULT_SYRINGE>>,
   <<PREFERRED_STEPS_PER_STROKE, PREFERRED_SYRINGE_UL>>}
ScenarioVolumes == {0, 1, 50, 100, 250, 500, 1000}
ScenarioSpeeds == {SPEED_MIN, SIM_DEFAULT_SPEED, SPEED_MAX}

(* A connected simulated pump with the given calibration, plunger at 0. *)
ScenarioPump(cal) ==
  pump_fn(configure_calibration(PumpCtrlInit(TRUE), cal[1], cal[2]).pump,
          Call("pump_on_connect", 1, 0), FALSE, [k \in 1..2 |-> TRUE]).pump

InitScenario ==
  /\ HAS_COM = FALSE
  /\ pump \in {ScenarioPump(cal) : cal \in ScenarioCals}
  /\ call = Call("init", 0, 0)
  /\ raised = FALSE
  /\ sent = <<>>
  /\ \E v \in ScenarioVolumes, speed \in ScenarioSpeeds :
       measurement_queue =
         <<QueueItem("PUMP_ASPIRATE", v, speed), QueueItem("PAUSE", 1, 0),
           QueueItem("PUMP_DISPENSE", v, speed)>>
  /\ is_running = FALSE
  /\ current_runner = NoRunner
  /\ pump_busy = FALSE
  /\ threads = [t \in Threads |-> FreeThread]
  /\ stop_requested = FALSE

NextScenario ==
  \/ Fresh /\ run_queue
  \/ \E t \in Threads :
       WorkerBegin(t) \/ WorkerPumpDo(t) \/ WorkerPause(t) \/ WorkerFinish(t)

SpecScenario == InitScenario /\ [][NextScenario]_vars

(* C5: once the run over [ASPIRATE v, PAUSE, DISPENSE v] has ended, the   *)
(* plunger is back at 0 and all three items are completed.                *)
C5_RoundTrip ==
  (\E t \in Threads : threads[t].kind = "done") =>
    /\ pump.plunger_steps = 0
    /\ \A k \in 1..3 : measurement_queue[k].status = "completed"

(* C5 witness: the run has ended for v = 50 with 100000 steps per stroke  *)
(* and a 1250 uL syringe.                                                 *)
C5_Witness ==
  /\ \E t \in Threads : threads[t].kind = "done"
  /\ pump.steps_per_stroke = DEFAULT_STEPS
  /\ pump.syringe_ul = DEFAULT_SYRINGE
  /\ measurement_queue[1].arg = 50
  /\ measurement_queue[3].status = "completed"
  /\ pump.plunger_steps = 0

(* ------------------ claims on SpecPlan and SpecBusy ------------------- *)
(* The plunger position projected from the real one over the pump items   *)
(* of q whose status is in the given set.                                 *)
RECURSIVE Walk(_, _, _)
Walk(items, p, steps) ==
  IF items = <<>> THEN steps
  ELSE
    LET it == Head(items)
        d == steps_for_volume(p, it.arg)
    IN  Walk(Tail(items), p,
             CASE it.type = "PUMP_INIT" -> 0
               [] it.type = "PUMP_ASPIRATE" -> Min(p.steps_per_stroke, steps + d)
               [] it.type = "PUMP_DISPENSE" -> Max(0, steps - d)
               [] OTHER -> steps)
Projection(q, p, statuses) ==
  Walk(SelectSeq(q, LAMBDA it : it.status \in statuses), p, p.plunger_steps)

(* INIT followed by two pending ASPIRATEs of more than one stroke. *)
C3_Scenario ==
  /\ Len(measurement_queue) = 3
  /\ \A k \in 1..3 : measurement_queue[k].status = "pending"
  /\ measurement_queue[1].type = "PUMP_INIT"
  /\ measurement_queue[2].type = "PUMP_ASPIRATE"
  /\ measurement_queue[3].type = "PUMP_ASPIRATE"
  /\ measurement_queue[2].arg + measurement_queue[3].arg > pump.syringe_ul

(* The step is a call of queue_pump_aspirate whose projection over the    *)
(* pending items, with the new steps, goes past the stroke.               *)
C3_OverStroke ==
  /\ call'.op = "queue_pump_aspirate"
  /\ Projection(measurement_queue, pump, {"pending"})
       + steps_for_volume(pump, call'.a1) > pump.steps_per_stroke

(* C3 as stated: an over-stroke ASPIRATE is rejected, and after INIT and  *)
(* two pending ASPIRATEs of more than one stroke any third ASPIRATE is    *)
(* rejected.                                                              *)
C3_ThirdAspirateRejected ==
  [][/\ C3_OverStroke => measurement_queue' = measurement_queue
     /\ (call'.op = "queue_pump_aspirate" /\ C3_Scenario) =>
          measurement_queue' = measurement_queue]_vars

(* C3 amended: an over-stroke ASPIRATE is rejected, and after INIT and    *)
(* two pending ASPIRATEs of more than one stroke a third ASPIRATE of at   *)
(* least one step is rejected.                                            *)
C3_OverStrokeRejected ==
  [][/\ C3_OverStroke => measurement_queue' = measurement_queue
     /\ (/\ call'.op = "queue_pump_aspirate"
         /\ C3_Scenario
         /\ steps_for_volume(pump, call'.a1) >= 1) =>
          measurement_queue' = measurement_queue]_vars

(* C3 witness: nothing has run, the queue is INIT and two pending         *)
(* ASPIRATEs of more than one stroke, and a third ASPIRATE was just       *)
(* turned down.                                                           *)
C3_Witness ==
  /\ Fresh
  /\ C3_Scenario
  /\ call = Call("queue_pump_aspirate", PlanVolume, SIM_DEFAULT_SPEED)

(* C4: the projection of the pre-check is the projection over the items   *)
(* that are pending or in flight (marked running by the worker).          *)
C4_CountsInFlight ==
  pump_pending_plunger_steps(measurement_queue, pump) =
    Projection(measurement_queue, pump, {"pending", "running"})

(* Threads inside a pump action: between set_pump_busy(True) and the end  *)
(* of the controller calls.                                               *)
InPumpAction ==
  {t \in Threads :
     \/ threads[t].kind = "queue" /\ threads[t].pc = "pump_do"
     \/ threads[t].kind = "pump" /\ threads[t].pc = "p_do"}

(* C10: on a connected pump at most one thread is inside a pump action. *)
C10_OneCommandInFlight ==
  pump.connected => Cardinality(InPumpAction) <= 1

(* ------------------------- claims on SpecSeq -------------------------- *)
(* pcs at which a worker has an item marked running *)
Busy == {"exec", "pause_loop", "pump_do", "session"}

(* C6: if stop_queue is called while a PAUSE item is executing (stopAt    *)
(* records the item), the worker leaves the pause with the item marked    *)
(* stopped and never begins a later item of that run.                     *)
C6_StopDuringPause ==
  [][\A t \in Threads :
       LET th == threads[t]
           th2 == threads'[t]
       IN  (th.kind = "queue" /\ th.stopAt # 0 /\ th2.kind = "queue") =>
             /\ (th.pc = "pause_loop" /\ th2.pc # "pause_loop") =>
                  measurement_queue'[th.i].status = "stopped"
             /\ ~(th2.i > th.stopAt /\ th2.pc \in Busy)
             /\ th2.written <= th.stopAt]_vars

(* The step ends a failing execution of the item thread t is at. *)
C7_Failed(t) ==
  LET th == threads[t] IN
    /\ th.kind = "queue"
    /\ threads'[t] # th
    /\ \/ th.pc = "pump_do" /\ raised'
       \/ th.pc = "session" /\ call' = Call("execute", 0, th.i)
       \/ /\ th.pc = "check" /\ is_running
          /\ th.i <= Len(measurement_queue)
          /\ Current(t).type \in PumpTypes /\ ~pump.connected

(* C7: as long as no stop has been requested, a failing item ends with    *)
(* status failed, the worker goes on to the next item of its run, and at  *)
(* the head of the loop it begins that item.                              *)
C7_FailureDoesNotStopRun ==
  [][\A t \in Threads :
       LET th == threads[t]
           th2 == threads'[t]
       IN  /\ (C7_Failed(t) /\ ~stop_requested') =>
                /\ th2.kind = "queue"
                /\ measurement_queue'[th.i].status = "failed"
                /\ th2.written = th.i
                /\ th.i < Len(th.snap) => (th2.pc = "check" /\ th2.i = th.i + 1)
           /\ (th.kind = "queue" /\ th.pc = "check" /\ th2 # th
                 /\ ~stop_requested') =>
                /\ th2.kind = "queue"
                /\ \/ th2.pc \in Busy /\ th2.i = th.i
                   \/ th2.written = th.i]_vars

(* C7 witness: no stop was requested, the first item of the run has       *)
(* failed and the worker is executing the second one.                     *)
C7_Witness ==
  \E t \in Threads :
    /\ ~stop_requested
    /\ threads[t].kind = "queue" /\ threads[t].pc \in Busy
    /\ threads[t].i = 2
    /\ measurement_queue[1].status = "failed"
    /\ measurement_queue[2].status = "running"

(* C8: whenever an item k of the queue becomes running, a worker at the   *)
(* head of its loop marked it, k is that worker's next item in list       *)
(* order, and the last terminal status the worker wrote in this run is    *)
(* that of item k - 1 (none yet for k = 1).                               *)
C8_InOrder ==
  [][\A k \in 1..Len(measurement_queue) :
       (/\ k <= Len(measurement_queue')
        /\ measurement_queue[k].status # "running"
        /\ measurement_queue'[k].status = "running") =>
         \E t \in Threads :
           /\ threads[t].kind = "queue" /\ threads[t].pc = "check"
           /\ threads'[t].pc \in Busy
           /\ threads[t].i = k
           /\ threads[t].written = k - 1]_vars

(* C8 witness: the second item of a run is running after the first got a  *)
(* terminal status.                                                       *)
C8_Witness ==
  \E t \in Threads :
    /\ threads[t].kind = "queue" /\ threads[t].pc \in Busy
    /\ threads[t].i = 2 /\ threads[t].written = 1
    /\ measurement_queue[1].status \in Terminal
    /\ measurement_queue[2].status = "running"

(* Threads that are executing a queue run or an immediate script run. *)
Workers ==
  {t \in Threads :
     \/ threads[t].kind = "queue"
     \/ threads[t].kind = "script" /\ threads[t].pc # "finalize"}

(* C9: at most one worker is executing, at most one queue item is in      *)
(* status running and at most one measurement session is open.            *)
C9_SingleWorker ==
  /\ Cardinality(Workers) <= 1
  /\ Cardinality({k \in 1..Len(measurement_queue) :
                    measurement_queue[k].status = "running"}) <= 1
  /\ Cardinality({t \in Threads :
                    threads[t].pc \in {"session", "imm_session"}}) <= 1

(* C11: after a stop request made while a script item was in flight, the  *)
(* runner of that item has is_running = False as long as its session      *)
(* lasts, so the read loop ends at its next test of the flag.             *)
C11_StopInterruptsSession ==
  \A t \in Threads :
    LET th == threads[t] IN
      (/\ th.kind = "queue"
       /\ th.pc \in {"session", "read"}
       /\ th.stopRun = th.i) => ~th.runner_running

(* ===================== MethodSCRIPT data packages ===================== *)
(* Text is a sequence of one-character strings; Python's s[a:b] is        *)
(* Slice(s, a, b).                                                        *)
Slice(s, a, b) == SubSeq(s, a + 1, Min(b, Len(s)))

HexUpper ==
  <<"0", "1", "2", "3", "4", "5", "6", "7", "8", "9",
    "A", "B", "C", "D", "E", "F">>
HexLower ==
  <<"0", "1", "2", "3", "4", "5", "6", "7", "8", "9",
    "a", "b", "c", "d", "e", "f">>

IsHexDigit(c) == \E k \in 1..16 : HexUpper[k] = c \/ HexLower[k] = c
HexValue(c) ==
  (CHOOSE k \in 1..16 : HexUpper[k] = c \/ HexLower[k] = c) - 1

(* int(s, 16) for text made of letters, digits and punctuation, without   *)
(* sign, underscore, blank or 0x prefix: ValueError unless every          *)
(* character is a hex digit.                                              *)
int16_raises(s) == s = <<>> \/ \E k \in 1..Len(s) : ~IsHexDigit(s[k])

RECURSIVE int16(_)
int16(s) ==
  IF s = <<>> THEN 0
  ELSE 16 * int16(SubSeq(s, 1, Len(s) - 1)) + HexValue(s[Len(s)])

(* The assert and the int() of MScriptVar.decode_value raise on text     *)
(* that is not 7 hex digits.                                              *)
decode_value_raises(var) == Len(var) # 7 \/ int16_raises(var)

(* Mutant: the bias is not subtracted. *)
decode_value_unbiased(var) == int16(var)

(* MScriptVar.decode_value *)
decode_value(var) == int16(var) - 2^27

(* SI_PREFIX_FACTOR, as the power of ten of each prefix. *)
SI_PREFIX_FACTOR ==
  [a |-> -18, f |-> -15, p |-> -12, n |-> -9, u |-> -6, m |-> -3,
   k |-> 3, M |-> 6, G |-> 9, T |-> 12, P |-> 15, E |-> 18, i |-> 0]
     @@ (" " :> 0)

(* str.split(sep): the pieces of s between the occurrences of sep. *)
RECURSIVE split(_, _)
split(s, sep) ==
  IF \A k \in 1..Len(s) : s[k] # sep THEN <<s>>
  ELSE LET k == CHOOSE j \in 1..Len(s) :
                  s[j] = sep /\ \A h \in 1..(j - 1) : s[h] # sep
       IN  <<SubSeq(s, 1, k - 1)>> \o split(SubSeq(s, k + 1, Len(s)), sep)

(* parse_metadata raises ValueError on a status or range token whose      *)
(* digits are not hexadecimal.                                            *)
parse_metadata_raises(tokens) ==
  \E k \in 1..Len(tokens) :
    \/ Len(tokens[k]) = 2 /\ tokens[k][1] = "1"
         /\ int16_raises(Slice(tokens[k], 1, 2))
    \/ Len(tokens[k]) = 3 /\ tokens[k][1] = "2"
         /\ int16_raises(Slice(tokens[k], 1, 3))

(* A variable that was built, and the exception of one that was not. *)
Var(id, nan, raw_value, si_prefix) ==
  [raised |-> "none", id |-> id, nan |-> nan, raw_value |-> raw_value,
   si_prefix |-> si_prefix]
Raise(exc) ==
  [raised |-> exc, id |-> <<>>, nan |-> FALSE, raw_value |-> 0,
   si_prefix |-> " "]

(* Mutant: the magnitude is read as a plain hexadecimal number. *)
MScriptVar_plain(data) ==
  IF Len(data) < 10 \/ int16_raises(Slice(data, 2, 9))
    THEN Raise("AssertionError")
    ELSE Var(Slice(data, 0, 2), FALSE, int16(Slice(data, 2, 9)), data[10])

(* MScriptVar.__init__ *)
MScriptVar(data) ==
  IF Len(data) < 10 THEN Raise("AssertionError")
  ELSE IF Slice(data, 2, 10) = <<" ", " ", " ", " ", " ", "n", "a", "n">> THEN
    IF parse_metadata_raises(Tail(split(data, ",")))
      THEN Raise("ValueError")
      ELSE Var(Slice(data, 0, 2), TRUE, 0, " ")
  ELSE IF int16_raises(Slice(data, 2, 9)) THEN Raise("ValueError")
  ELSE IF parse_metadata_raises(Tail(split(data, ",")))
    THEN Raise("ValueError")
  ELSE Var(Slice(data, 0, 2), FALSE, decode_value(Slice(data, 2, 9)),
           data[10])

(* A float: m * 10^e, or nan. *)
Float(nan, m, e) == [nan |-> nan, m |-> m, e |-> e]

(* MScriptVar.value raises KeyError on a prefix SI_PREFIX_FACTOR lacks. *)
value_raises(var) == var.si_prefix \notin DOMAIN SI_PREFIX_FACTOR
value(var) == Float(var.nan, var.raw_value, SI_PREFIX_FACTOR[var.si_prefix])

(* parse_mscript_data_package: None, the exception of the first variable  *)
(* that cannot be built, or the list of variables.                        *)
startswith(s, c) == Len(s) >= 1 /\ s[1] = c

(* Mutant: a variable shorter than 10 characters is left out. *)
parse_mscript_data_package_lenient(line) ==
  IF ~(startswith(line, "P") /\ line[Len(line)] = "\n")
    THEN [raised |-> "none", none |-> TRUE, vars |-> <<>>]
  ELSE
    LET tokens == SelectSeq(split(Slice(line, 1, Len(line) - 1), ";"),
                            LAMBDA tok : Len(tok) >= 10)
        built == [k \in 1..Len(tokens) |-> MScriptVar(tokens[k])]
        bad == {k \in 1..Len(built) : built[k].raised # "none"}
    IN  IF bad = {}
          THEN [raised |-> "none", none |-> FALSE, vars |-> built]
          ELSE [raised |-> built[CHOOSE k \in bad :
                                   \A h \in bad : k <= h].raised,
                none |-> FALSE, vars |-> <<>>]

parse_mscript_data_package(line) ==
  IF ~(startswith(line, "P") /\ line[Len(line)] = "\n")
    THEN [raised |-> "none", none |-> TRUE, vars |-> <<>>]
  ELSE
    LET tokens == split(Slice(line, 1, Len(line) - 1), ";")
        built == [k \in 1..Len(tokens) |-> MScriptVar(tokens[k])]
        bad == {k \in 1..Len(built) : built[k].raised # "none"}
    IN  IF bad = {}
          THEN [raised |-> "none", none |-> FALSE, vars |-> built]
          ELSE [raised |-> built[CHOOSE k \in bad :
                                   \A h \in bad : k <= h].raised,
                none |-> FALSE, vars |-> <<>>]

PotentialIds == {<<"a", "b">>, <<"d", "a">>}
CurrentIds == {<<"b", "a">>}

DataPoint(potential, current) ==
  [potential |-> potential, current |-> current]

(* var.value * 1e6 *)
TimesMillion(x) == Float(x.nan, x.m, x.e + 6)

(* Mutant: a record with a potential or a current gives a point. *)
parse_data_line_either(data_points, line) ==
  LET package == parse_mscript_data_package(line \o <<"\n">>)
      pot == {k \in 1..Len(package.vars) : package.vars[k].id \in PotentialIds}
      cur == {k \in 1..Len(package.vars) : package.vars[k].id \in CurrentIds}
      last(S) == CHOOSE k \in S : \A h \in S : h <= k
  IN  IF package.raised # "none"
        THEN [raised |-> package.raised, data_points |-> data_points]
      ELSE IF package.none
        THEN [raised |-> "none", data_points |-> data_points]
      ELSE IF \E k \in pot \cup cur : value_raises(package.vars[k])
        THEN [raised |-> "none", data_points |-> data_points]
      ELSE IF pot = {} /\ cur = {}
        THEN [raised |-> "none", data_points |-> data_points]
      ELSE [raised |-> "none",
            data_points |->
              Append(data_points,
                     DataPoint(value(package.vars[last(pot \cup cur)]),
                               TimesMillion(
                                 value(package.vars[last(pot \cup cur)]))))]

(* parse_data_line: the exception that leaves it (parse_mscript_data_     *)
(* package is called outside the try block) and data_points afterwards.   *)
(* A KeyError of var.value is caught inside and the record is dropped.    *)
parse_data_line(data_points, line) ==
  LET package == parse_mscript_data_package(line \o <<"\n">>)
      pot == {k \in 1..Len(package.vars) : package.vars[k].id \in PotentialIds}
      cur == {k \in 1..Len(package.vars) : package.vars[k].id \in CurrentIds}
      last(S) == CHOOSE k \in S : \A h \in S : h <= k
  IN  IF package.raised # "none"
        THEN [raised |-> package.raised, data_points |-> data_points]
      ELSE IF package.none
        THEN [raised |-> "none", data_points |-> data_points]
      ELSE IF \E k \in pot \cup cur : value_raises(package.vars[k])
        THEN [raised |-> "none", data_points |-> data_points]
      ELSE IF pot = {} \/ cur = {}
        THEN [raised |-> "none", data_points |-> data_points]
      ELSE [raised |-> "none",
            data_points |->
              Append(data_points,
                     DataPoint(value(package.vars[last(pot)]),
                               TimesMillion(value(package.vars[last(cur)]))))]

(* ------------------- the decoder, called directly --------------------- *)
(* The 7-digit upper-case hexadecimal text of n. *)
Hex7(n) == [k \in 1..7 |-> HexUpper[((n \div 16^(7 - k)) % 16) + 1]]

(* Magnitudes: both ends and the middle of the range, and three values    *)
(* for each pair of leading digits.                                       *)
MagnitudeInputs ==
  {0, 2^26, 2^27 - 1, 2^27, 2^27 + 1, 2^28 - 1}
    \cup {j * 2^20 + r : j \in 0..255, r \in {0, 1, 2^20 - 1}}

Token(id, magnitude, si_prefix, metadata) ==
  id \o magnitude \o <<si_prefix>> \o metadata

(* Metadata: none, or a status and a current range. *)
NoMetadata == <<>>
StatusAndRange == <<",", "1", "0", ",", "2", "8", "8">>

(* Tokens: well-formed ones, ones with a magnitude that is not            *)
(* hexadecimal or a prefix the table lacks, and ones cut to 9 characters. *)
TokenInputs ==
  {Token(id, mag, sp, md) :
     id \in PotentialIds \cup CurrentIds,
     mag \in {Hex7(n) : n \in {0, 2^26, 2^27 - 1, 2^27, 2^27 + 1, 2^28 - 1}}
               \cup {<<"8", "0", "0", "0", "0", "g", "0">>},
     sp \in {" ", "i", "u", "m", "k", "x"},
     md \in {NoMetadata, StatusAndRange}}
    \cup {Slice(Token(id, Hex7(2^27), " ", NoMetadata), 0, 9) :
            id \in PotentialIds \cup CurrentIds}

(* str.isalpha() of one character of ASCII text. *)
isalpha(c) ==
  c \in {"A", "B", "C", "D", "E", "F", "G", "H", "I", "J", "K", "L", "M",
         "N", "O", "P", "Q", "R", "S", "T", "U", "V", "W", "X", "Y", "Z",
         "a", "b", "c", "d", "e", "f", "g", "h", "i", "j", "k", "l", "m",
         "n", "o", "p", "q", "r", "s", "t", "u", "v", "w", "x", "y", "z"}

(* parse_emstat_value of test_parser.py on text of hex digits that does   *)
(* not end in n, u, a or f (no scaling): a final letter is taken for the  *)
(* unit suffix, and 0x80000000 is subtracted in either branch of the      *)
(* midpoint test.  2^31 is taken off in two halves to stay within 32      *)
(* bits.                                                                  *)
parse_emstat_value(value_str) ==
  IF value_str = <<>> THEN 0
  ELSE
    LET hex_part == IF isalpha(value_str[Len(value_str)])
                      THEN SubSeq(value_str, 1, Len(value_str) - 1)
                      ELSE value_str
        raw_value == IF hex_part = <<>> THEN 0 ELSE int16(hex_part)
    IN  IF int16_raises(hex_part) /\ hex_part # <<>> THEN 0
        ELSE IF raw_value - 2^30 >= 2^30
          THEN (raw_value - 2^30) - 2^30
          ELSE (raw_value - 2^30) - 2^30

(* Records: "P" and one to MaxVars pieces joined by ";".  The pieces are   *)
(* two potentials, a current, a variable of another kind, a current cut   *)
(* to 9 characters, a current that is not hexadecimal, the empty piece,   *)
(* and a current and a variable of another kind with a prefix the table   *)
(* lacks.                                                                 *)
RECURSIVE join(_, _)
join(sep, pieces) ==
  IF Len(pieces) = 1 THEN pieces[1]
  ELSE pieces[1] \o <<sep>> \o join(sep, Tail(pieces))

RecordPieces ==
  {Token(<<"d", "a">>, Hex7(2^27 + 5), "m", NoMetadata),
   Token(<<"a", "b">>, Hex7(2^27), " ", NoMetadata),
   Token(<<"b", "a">>, Hex7(2^27 + 1), "u", StatusAndRange),
   Token(<<"e", "b">>, Hex7(2^27 + 2), " ", NoMetadata),
   Slice(Token(<<"b", "a">>, Hex7(2^27 + 1), "u", NoMetadata), 0, 9),
   Token(<<"b", "a">>, <<"8", "0", "0", "0", "0", "g", "0">>, "u",
         NoMetadata),
   <<>>,
   Token(<<"b", "a">>, Hex7(2^27 + 3), "x", NoMetadata),
   Token(<<"e", "b">>, Hex7(2^27 + 2), "x", NoMetadata)}

RecordInputs ==
  {<<"P">> \o join(";", pieces) :
     pieces \in UNION {[1..n -> RecordPieces] : n \in 1..MaxVars}}

(* data_points before the record: empty, or one earlier point. *)
PointsInputs ==
  {<<>>, <<DataPoint(Float(FALSE, 7, -3), Float(FALSE, 9, 0))>>}

(* The text handed to the decoder. *)
InitDecode ==
  /\ HAS_COM = FALSE
  /\ pump = GuiPump
  /\ call \in {Call("magnitude", n, 0) : n \in MagnitudeInputs}
               \cup {Call("token", data, 0) : data \in TokenInputs}
               \cup {Call("record", line, points) :
                       line \in RecordInputs, points \in PointsInputs}
  /\ raised = FALSE
  /\ sent = <<>>
  /\ InitSeq

CallDecodeValue ==
  /\ call.op = "magnitude"
  /\ call' = Call("decode_value", call.a1, decode_value(Hex7(call.a1)))
  /\ raised' = decode_value_raises(Hex7(call.a1))
  /\ sent' = <<>>
  /\ UNCHANGED <<HAS_COM, pump>>
  /\ UNCHANGED seqVars

CallParseEmstatValue ==
  /\ call.op = "magnitude"
  /\ call' = Call("parse_emstat_value", call.a1,
                  parse_emstat_value(Hex7(call.a1)))
  /\ raised' = FALSE
  /\ sent' = <<>>
  /\ UNCHANGED <<HAS_COM, pump>>
  /\ UNCHANGED seqVars

CallMScriptVar ==
  /\ call.op = "token"
  /\ call' = Call("MScriptVar", call.a1, MScriptVar(call.a1))
  /\ raised' = (MScriptVar(call.a1).raised # "none")
  /\ sent' = <<>>
  /\ UNCHANGED <<HAS_COM, pump>>
  /\ UNCHANGED seqVars

CallParsePackage ==
  /\ call.op = "record"
  /\ LET line == call.a1 \o <<"\n">> IN
       /\ call' = Call("parse_mscript_data_package", line,
                       parse_mscript_data_package(line))
       /\ raised' = (parse_mscript_data_package(line).raised # "none")
  /\ sent' = <<>>
  /\ UNCHANGED <<HAS_COM, pump>>
  /\ UNCHANGED seqVars

CallParseDataLine ==
  /\ call.op = "record"
  /\ call' = Call("parse_data_line",
                  [line |-> call.a1, data_points |-> call.a2],
                  parse_data_line(call.a2, call.a1))
  /\ raised' = (parse_data_line(call.a2, call.a1).raised # "none")
  /\ sent' = <<>>
  /\ UNCHANGED <<HAS_COM, pump>>
  /\ UNCHANGED seqVars

NextDecode ==
  \/ CallDecodeValue
  \/ CallParseEmstatValue
  \/ CallMScriptVar
  \/ CallParsePackage
  \/ CallParseDataLine

SpecDecode == InitDecode /\ [][NextDecode]_vars

(* 'PAUSE', 'PUMP_', 'PUMP_ASPIRATE' and 'ASPIRATE' as text. *)
PAUSE_TEXT == <<"P", "A", "U", "S", "E">>
PUMP_PREFIX_TEXT == <<"P", "U", "M", "P", "_">>
PUMP_ASPIRATE_TEXT ==
  <<"P", "U", "M", "P", "_", "A", "S", "P", "I", "R", "A", "T", "E">>
ASPIRATE_TEXT == <<"A", "S", "P", "I", "R", "A", "T", "E">>

(* ==================== loading a persisted queue ======================= *)
(* JSON values: a key that is absent, null, a number, a string (text as   *)
(* a sequence of characters) and an object, which carries its keys as     *)
(* further fields.                                                        *)
JAbsent == [json |-> "absent"]
JNull == [json |-> "null"]
JNum(n) == [json |-> "number", n |-> n]
JStr(s) == [json |-> "string", s |-> s]

(* bool(v): None, 0 and '' are false.  The objects below stand for        *)
(* themselves or for {}, which behave alike under .get.                   *)
truthy(v) ==
  IF v.json \in {"absent", "null"} THEN FALSE
  ELSE IF v.json = "number" THEN v.n # 0
  ELSE IF v.json = "string" THEN v.s # <<>>
  ELSE TRUE

(* float(v) for null, an object, an integer and text made of letters and  *)
(* digits other than nan, inf and infinity: TypeError, ValueError unless  *)
(* the text is all digits, or the number.                                 *)
IsDigit(c) == \E k \in 1..10 : HexUpper[k] = c

float_raises(v) ==
  \/ v.json \in {"absent", "null", "object"}
  \/ /\ v.json = "string"
     /\ (v.s = <<>> \/ \E k \in 1..Len(v.s) : ~IsDigit(v.s[k]))

RECURSIVE int10(_)
int10(s) ==
  IF s = <<>> THEN 0
  ELSE 10 * int10(SubSeq(s, 1, Len(s) - 1)) + HexValue(s[Len(s)])

float_value(v) == IF v.json = "number" THEN v.n ELSE int10(v.s)

(* An entry of the items list, a pump_action and its params. *)
RawItem(type, pause_seconds, pump_action, script_path) ==
  [json |-> "object", type |-> type, pause_seconds |-> pause_seconds,
   pump_action |-> pump_action, script_path |-> script_path]
RawAction(name, params) ==
  [json |-> "object", name |-> name, params |-> params]
RawParams(volume_ul, speed, port) ==
  [json |-> "object", volume_ul |-> volume_ul, speed |-> speed,
   port |-> port]

(* A queue item as load_queue builds it. *)
LoadedItem(type, pause_seconds, pump_action, script_path) ==
  [type |-> type, status |-> "pending", pause_seconds |-> pause_seconds,
   pump_action |-> pump_action, script_path |-> script_path]

(* One round of the loop of load_queue over items: the entry is appended, *)
(* skipped and counted, or an exception leaves the loop and the handler.  *)
load_item(raw_item) ==
  LET skip == [outcome |-> "skip", item |-> JNull]
      fail == [outcome |-> "raise", item |-> JNull]
      append(item) == [outcome |-> "append", item |-> item]
  IN
  IF raw_item.json # "object" THEN skip
  ELSE IF ~truthy(raw_item.type) THEN skip
  ELSE IF raw_item.type.json = "string" /\ raw_item.type.s = PAUSE_TEXT THEN
    LET seconds == IF raw_item.pause_seconds.json = "absent"
                     THEN JNum(0) ELSE raw_item.pause_seconds
    IN  IF float_raises(seconds) THEN skip
        ELSE append(LoadedItem(raw_item.type, JNum(float_value(seconds)),
                               JAbsent, JAbsent))
  ELSE IF raw_item.type.json # "string" THEN fail
  ELSE IF Slice(raw_item.type.s, 0, 5) = PUMP_PREFIX_TEXT THEN
    LET action == IF truthy(raw_item.pump_action)
                    THEN raw_item.pump_action
                    ELSE RawAction(JAbsent, JAbsent)
    IN  IF action.json # "object" THEN fail
        ELSE IF ~truthy(action.name) THEN skip
        ELSE
          LET params == IF truthy(action.params)
                          THEN action.params
                          ELSE RawParams(JAbsent, JAbsent, JAbsent)
          IN  IF params.json # "object" THEN fail
              ELSE append(LoadedItem(raw_item.type, JAbsent,
                                     RawAction(action.name, params),
                                     JAbsent))
  ELSE IF ~truthy(raw_item.script_path) THEN skip
  ELSE append(LoadedItem(raw_item.type, JAbsent, JAbsent,
                         raw_item.script_path))

(* The loop of load_queue: new_queue, skipped, and taken, the positions   *)
(* of the entries that were appended.                                     *)
load_queue_items(items) ==
  LET outs == [k \in 1..Len(items) |-> load_item(items[k])]
      taken == SelectSeq([k \in 1..Len(items) |-> k],
                         LAMBDA k : outs[k].outcome = "append")
  IN  IF \E k \in 1..Len(items) : outs[k].outcome = "raise"
        THEN [raised |-> TRUE, new_queue |-> <<>>, skipped |-> 0,
              taken |-> <<>>]
        ELSE [raised |-> FALSE,
              new_queue |-> [j \in 1..Len(taken) |-> outs[taken[j]].item],
              skipped |-> Len(items) - Len(taken),
              taken |-> taken]

(* Entries of a document: pauses with a number, with digits as text and   *)
(* with other text; pump actions with numeric parameters, with a volume   *)
(* that is no number, without a name, and with text for pump_action;      *)
(* scripts with and without a path; an entry without type, one whose type *)
(* is a number, and one that is no object.                                *)
RawEntries ==
  {RawItem(JStr(PAUSE_TEXT), JNum(2), JAbsent, JAbsent),
   RawItem(JStr(PAUSE_TEXT), JStr(<<"5">>), JAbsent, JAbsent),
   RawItem(JStr(PAUSE_TEXT), JStr(<<"a", "b", "c">>), JAbsent, JAbsent),
   RawItem(JStr(PUMP_ASPIRATE_TEXT), JAbsent,
           RawAction(JStr(ASPIRATE_TEXT),
                     RawParams(JNum(100), JNum(20), JAbsent)),
           JAbsent),
   RawItem(JStr(PUMP_ASPIRATE_TEXT), JAbsent,
           RawAction(JStr(ASPIRATE_TEXT),
                     RawParams(JStr(<<"a", "b", "c">>), JNum(20), JAbsent)),
           JAbsent),
   RawItem(JStr(PUMP_ASPIRATE_TEXT), JAbsent,
           RawAction(JAbsent, RawParams(JNum(100), JNum(20), JAbsent)),
           JAbsent),
   RawItem(JStr(PUMP_ASPIRATE_TEXT), JAbsent, JStr(ASPIRATE_TEXT), JAbsent),
   RawItem(JStr(<<"C", "V">>), JAbsent, JAbsent,
           JStr(<<"c", "v", ".", "m", "s">>)),
   RawItem(JStr(<<"C", "V">>), JAbsent, JAbsent, JAbsent),
   RawItem(JAbsent, JNum(2), JAbsent, JAbsent),
   RawItem(JNum(5), JAbsent, JAbsent, JStr(<<"c", "v", ".", "m", "s">>)),
   JNum(7)}

RawDocs == UNION {[1..n -> RawEntries] : n \in 0..MaxDoc}

(* The operator picks a document while the queue is empty or holds one    *)
(* script item.                                                           *)
InitLoad ==
  /\ HAS_COM = FALSE
  /\ pump = GuiPump
  /\ call \in {Call("document", items, 0) : items \in RawDocs}
  /\ raised = FALSE
  /\ sent = <<>>
  /\ measurement_queue \in {<<>>, <<QueueItem("CV", 0, 0)>>}
  /\ is_running = FALSE
  /\ current_runner = NoRunner
  /\ pump_busy = FALSE
  /\ threads = [t \in Threads |-> FreeThread]
  /\ stop_requested = FALSE

(* load_queue on a document whose items list is call.a1. *)
LoadQueue ==
  /\ call.op = "document"
  /\ ~is_running
  /\ LET r == load_queue_items(call.a1) IN
       /\ measurement_queue' =
            IF r.raised \/ Len(r.new_queue) = 0
              THEN measurement_queue ELSE r.new_queue
       /\ call' = Call("load_queue", call.a1, r)
       /\ raised' = r.raised
  /\ sent' = <<>>
  /\ UNCHANGED <<HAS_COM, pump, is_running, current_runner, pump_busy,
                 threads, stop_requested>>

NextLoad == LoadQueue

SpecLoad == InitLoad /\ [][NextLoad]_vars

(* ====================== the measurement session ======================= *)
(* str.strip(): blanks and line ends are removed at both ends. *)
RECURSIVE strip(_)
strip(s) ==
  IF s # <<>> /\ s[1] \in {" ", "\n", "\r", "\t"} THEN strip(Tail(s))
  ELSE IF s # <<>> /\ s[Len(s)] \in {" ", "\n", "\r", "\t"}
    THEN strip(SubSeq(s, 1, Len(s) - 1))
  ELSE s

(* bytes.decode('utf-8', errors='ignore'): a byte that is no UTF-8,       *)
(* written xFF, is dropped.                                               *)
decode(line) ==
  LET valid(c) == c # "xFF" IN SelectSeq(line, valid)

(* str.lower() *)
lower(s) ==
  LET upper ==
        <<"A", "B", "C", "D", "E", "F", "G", "H", "I", "J", "K", "L", "M",
          "N", "O", "P", "Q", "R", "S", "T", "U", "V", "W", "X", "Y", "Z">>
      low ==
        <<"a", "b", "c", "d", "e", "f", "g", "h", "i", "j", "k", "l", "m",
          "n", "o", "p", "q", "r", "s", "t", "u", "v", "w", "x", "y", "z">>
  IN  [k \in 1..Len(s) |->
         IF \E j \in 1..26 : upper[j] = s[k]
           THEN low[CHOOSE j \in 1..26 : upper[j] = s[k]]
           ELSE s[k]]

(* sub in s *)
Contains(s, sub) ==
  \E k \in 0..(Len(s) - Len(sub)) : SubSeq(s, k + 1, k + Len(sub)) = sub

(* Mutant: only the star ends the measurement. *)
Sentinels_star == {<<"*">>}

(* ['*', 'Measurement completed', 'Script completed'] *)
Sentinels ==
  {<<"*">>,
    <<"M", "e", "a", "s", "u", "r", "e", "m", "e", "n", "t", " ", "c",
      "o", "m", "p", "l", "e", "t", "e", "d">>,
    <<"S", "c", "r", "i", "p", "t", " ", "c", "o", "m", "p", "l", "e",
      "t", "e", "d">>}

(* Lines the device sends: a record with metadata, a second record with   *)
(* other values, a record whose last                                      *)
(* variable ends with the space prefix, the same two variables without    *)
(* the separator, records with a short token, a magnitude that is not     *)
(* hexadecimal and a prefix the table lacks, error lines with and         *)
(* without abort, a completion sentinel after a stray byte, another       *)
(* sentinel ending in CR LF, a blank line and nothing (the read timed     *)
(* out).                                                                  *)
DeviceLines ==
  [with_metadata |->
       <<"P", "d", "a", "8", "0", "0", "0", "0", "0", "0", " ", ";", "b",
         "a", "8", "0", "0", "0", "0", "0", "1", "u", ",", "1", "0", ",",
         "2", "8", "8", "\n">>,
   second_record |->
       <<"P", "d", "a", "8", "0", "0", "0", "0", "0", "5", "m", ";", "b",
         "a", "8", "0", "0", "0", "0", "0", "2", "u", ",", "1", "0", ",",
         "2", "8", "8", "\n">>,
   space_prefix |->
       <<"P", "d", "a", "8", "0", "0", "0", "0", "0", "0", " ", ";", "b",
         "a", "8", "0", "0", "0", "0", "0", "0", " ", "\n">>,
   no_separator |->
       <<"P", "a", "b", "4", "0", "0", "0", "0", "0", "0", " ", "b", "a",
         "4", "0", "0", "0", "0", "0", "0", " ", "\n">>,
   short_token |->
       <<"P", "d", "a", "8", "0", "0", "0", "0", ";", "b", "a", "8", "0",
         "0", "0", "0", "0", "1", "u", ",", "1", "0", ",", "2", "8", "8",
         "\n">>,
   not_hex |->
       <<"P", "d", "a", "8", "0", "0", "0", "0", "0", "0", " ", ";", "b",
         "a", "8", "0", "0", "0", "0", "g", "1", "u", ",", "1", "0", ",",
         "2", "8", "8", "\n">>,
   unknown_prefix |->
       <<"P", "d", "a", "8", "0", "0", "0", "0", "0", "0", " ", ";", "b",
         "a", "8", "0", "0", "0", "0", "0", "1", "x", ",", "1", "0", ",",
         "2", "8", "8", "\n">>,
   error |-> <<"!", "0", "0", "0", "4", "\n">>,
   abort |->
       <<"!", "S", "c", "r", "i", "p", "t", " ", "A", "B", "O", "R", "T",
         "E", "D", "\n">>,
   completed |-> <<"xFF", "*", "\n">>,
   script_completed |->
       <<"S", "c", "r", "i", "p", "t", " ", "c", "o", "m", "p", "l", "e",
         "t", "e", "d", "\r", "\n">>,
   blank |-> <<"\n">>,
   timeout |-> <<>>]

MalformedRecords == {"short_token", "not_hex", "unknown_prefix"}

(* What execute meets before the read loop: the script file cannot be     *)
(* read; no port is found; serial.Serial raises; the port opens and the   *)
(* probe write or read raises; the probe gets no reply; the probe is      *)
(* answered and a write of the script raises; the script is sent.         *)
ProbeOutcomes ==
  {"no_script", "no_port", "open_failed", "probe_raised", "no_reply",
   "send_failed", "streaming"}

(* self.connection when connect returns. *)
runner_connect(outcome) ==
  IF outcome \in {"no_script", "no_port", "open_failed"} THEN "none"
  ELSE "open"

(* SerialMeasurementRunner.disconnect *)
runner_disconnect(connection) ==
  IF connection = "open" THEN "closed" ELSE connection

(* run_script returns ok with the runner at r: execute saves the data     *)
(* points, disconnects in its finally clause and returns; execute_queue   *)
(* writes the status.                                                     *)
RunnerReturn(t, r, ok) ==
  LET th == threads[t]
      saved == IF ok THEN Len(r.data_points) ELSE 0
      status == TerminalStatus(Current(t), ok)
  IN  SessionEnd(t, [th EXCEPT !.runner =
                       [r EXCEPT !.connection = runner_disconnect(@),
                                 !.rows = saved, !.wrote = status]], ok)

(* execute up to the read loop: the script file, connect and the sending  *)
(* of the script.  A failing connect makes execute return at once.        *)
RunnerConnect(t) ==
  /\ At(t, "queue", "session")
  /\ \E outcome \in ProbeOutcomes :
       LET th == threads[t]
           r == [th.runner EXCEPT !.connection = runner_connect(outcome)]
       IN  IF outcome = "streaming" THEN
             /\ SetThread(t, [th EXCEPT !.runner = r, !.pc = "read"])
             /\ NoCall
             /\ UNCHANGED <<HAS_COM, pump, measurement_queue, is_running,
                            current_runner, pump_busy, stop_requested>>
           ELSE IF outcome = "send_failed" THEN
             RunnerReturn(t, [r EXCEPT !.exit = outcome], FALSE)
           ELSE
             SessionEnd(t, [th EXCEPT !.runner =
                              [r EXCEPT !.exit = outcome,
                                        !.wrote = TerminalStatus(Current(t),
                                                                 FALSE)]],
                        FALSE)

(* One round of the read loop: the test of is_running, readline and the   *)
(* handling of the line.                                                  *)
RunnerRead(t) ==
  /\ At(t, "queue", "read")
  /\ LET th == threads[t]
         idle == [th.runner EXCEPT !.line = "none", !.appended = 0]
     IN  IF ~th.runner_running THEN
           RunnerReturn(t, [idle EXCEPT !.exit = "stopped"], TRUE)
         ELSE
           \/ RunnerReturn(t, [idle EXCEPT !.exit = "serial_error"], TRUE)
           \/ \E name \in DOMAIN DeviceLines :
                LET text == strip(decode(DeviceLines[name]))
                    parsed ==
                      IF startswith(text, "P")
                        THEN parse_data_line(th.runner.data_points, text)
                        ELSE [raised |-> "none",
                              data_points |-> th.runner.data_points]
                    r == [th.runner EXCEPT
                            !.line = name,
                            !.data_points = parsed.data_points,
                            !.appended = Len(parsed.data_points)
                                           - Len(th.runner.data_points)]
                IN  /\ Len(parsed.data_points) <= MaxPoints
                    /\ IF parsed.raised # "none" THEN
                         RunnerReturn(t, [r EXCEPT !.exit = parsed.raised],
                                      FALSE)
                       ELSE IF text \in Sentinels THEN
                         RunnerReturn(t, [r EXCEPT !.exit = "sentinel"], TRUE)
                       ELSE IF /\ startswith(text, "!")
                               /\ Contains(lower(text),
                                           <<"a", "b", "o", "r", "t">>) THEN
                         RunnerReturn(t, [r EXCEPT !.exit = "abort"], TRUE)
                       ELSE
                         /\ SetThread(t, [th EXCEPT !.runner = r])
                         /\ NoCall
                         /\ UNCHANGED <<HAS_COM, pump, measurement_queue,
                                        is_running, current_runner,
                                        pump_busy, stop_requested>>

(* One run of a queue of script items, which the operator may stop. *)
NextSession ==
  \/ Building /\ add_to_queue
  \/ Fresh /\ run_queue
  \/ stop_queue
  \/ \E t \in Threads :
       \/ WorkerBegin(t) \/ WorkerExec(t) \/ RunnerConnect(t)
       \/ RunnerRead(t) \/ WorkerFinish(t)

SpecSession == InitGui({AutoConnected}) /\ [][NextSession]_vars

(* ------------------------- claims on SpecRun -------------------------- *)
(* The pump action the worker t is about to execute would move the        *)
(* plunger past an end of the syringe.                                    *)
C17_OverTravel(t) ==
  LET item == Current(t)
      delta == RoundHalfEven(pump.steps_per_stroke * item.arg,
                             pump.syringe_ul)
  IN  /\ At(t, "queue", "pump_do")
      /\ \/ /\ item.type = "PUMP_ASPIRATE"
            /\ pump.plunger_steps + delta > pump.steps_per_stroke
         \/ /\ item.type = "PUMP_DISPENSE"
            /\ delta > pump.plunger_steps

(* C17: executing a queued ASPIRATE or DISPENSE item that would exceed    *)
(* the syringe travel sends no command to the pump, leaves the plunger    *)
(* where it is and ends with the item failed.                             *)
C17_NothingSent ==
  [][\A t \in Threads :
       (C17_OverTravel(t) /\ threads'[t] # threads[t]) =>
         /\ sent' = <<>>
         /\ pump'.plunger_steps = pump.plunger_steps
         /\ measurement_queue'[threads[t].i].status = "failed"]_vars

(* ------------------------- claims on SpecSession ---------------------- *)
(* C12: once execute has returned, by whatever path, the serial port it   *)
(* opened is closed.                                                      *)
C12_TransportClosed ==
  \A t \in Threads :
    threads[t].runner.exit # "none" =>
      threads[t].runner.connection # "open"

(* C13: a record line with a malformed variable token adds no DataPoint   *)
(* and does not end the read loop.                                        *)
C13_MalformedSkipped ==
  \A t \in Threads :
    threads[t].runner.line \in MalformedRecords =>
      /\ threads[t].runner.appended = 0
      /\ threads[t].runner.exit = "none"
      /\ threads[t].pc = "read"

(* C14: a session whose read loop was ended by a serial exception is not  *)
(* reported as a success and its queue item is given status failed.       *)
C14_SerialErrorFails ==
  \A t \in Threads :
    threads[t].runner.exit = "serial_error" =>
      /\ threads[t].runner.rows = 0
      /\ threads[t].runner.wrote = "failed"

(* C15: an error line containing abort ends the read loop with an outcome *)
(* that is no success; an error line without abort does not end the loop. *)
C15_AbortNotSuccess ==
  \A t \in Threads :
    /\ threads[t].runner.line = "abort" =>
         /\ threads[t].runner.exit = "abort"
         /\ threads[t].runner.wrote # "completed"
    /\ threads[t].runner.line = "error" =>
         /\ threads[t].runner.exit = "none"
         /\ threads[t].pc = "read"

(* C16: the queue item of a session whose read loop was ended by the      *)
(* stop flag does not get the status completed.                           *)
C16_StopDistinguished ==
  \A t \in Threads :
    threads[t].runner.exit = "stopped" =>
      threads[t].runner.wrote # "completed"

(* C20: a record line with a potential and a current variable, also one   *)
(* whose last variable ends with the space prefix and has no metadata,    *)
(* appends exactly one DataPoint with potential = the scaled potential    *)
(* and current = the scaled current * 1e6; the record of the scenario     *)
(* gives one DataPoint and, when the session has ended, one saved row.    *)
C20_OneDataPoint ==
  \A t \in Threads :
    LET r == threads[t].runner
        expected ==
          [with_metadata |-> DataPoint(Float(FALSE, 0, 0), Float(FALSE, 1, 0)),
           space_prefix |-> DataPoint(Float(FALSE, 0, 0), Float(FALSE, 0, 6)),
           no_separator |->
             DataPoint(Float(FALSE, -(2^26), 0), Float(FALSE, -(2^26), 6))]
    IN  /\ r.line \in DOMAIN expected =>
             /\ r.appended = 1
             /\ r.data_points[Len(r.data_points)] = expected[r.line]
        /\ (r.exit = "sentinel" /\ Len(r.data_points) = 1) => r.rows = 1

(* C18: for a 7-digit magnitude with number n, decode_value gives         *)
(* n - 2^27: 0 exactly at n = 0x8000000, negative below it and positive   *)
(* above it.                                                              *)
C18_DecodeValue ==
  call.op = "decode_value" =>
    /\ ~raised
    /\ call.a2 = call.a1 - 2^27
    /\ call.a2 = 0 <=> call.a1 = 2^27
    /\ call.a2 < 0 <=> call.a1 < 2^27
    /\ call.a2 > 0 <=> call.a1 > 2^27

(* C18 witness: the magnitude 8000000 has been decoded to 0. *)
C18_Witness ==
  /\ call.op = "decode_value"
  /\ call.a1 = 2^27
  /\ call.a2 = 0

BA4000000 == Token(<<"b", "a">>, Hex7(2^26), " ", NoMetadata)
BA8000000 == Token(<<"b", "a">>, Hex7(2^27), " ", NoMetadata)

(* C19 as stated: the token ba4000000 with the space prefix decodes to    *)
(* raw value 0 and scaled value 0.0.                                      *)
C19_Bias4000000 ==
  (call.op = "MScriptVar" /\ call.a1 = BA4000000) =>
    /\ call.a2.raised = "none"
    /\ call.a2.raw_value = 0
    /\ value(call.a2) = Float(FALSE, 0, 0)

(* C19 amended: the token ba8000000 with the space prefix decodes to raw  *)
(* value 0 and scaled value 0.0; ba4000000 decodes to -2^26.              *)
C19_Bias8000000 ==
  /\ (call.op = "MScriptVar" /\ call.a1 = BA8000000) =>
       /\ call.a2.raised = "none"
       /\ call.a2.id = <<"b", "a">>
       /\ call.a2.raw_value = 0
       /\ value(call.a2) = Float(FALSE, 0, 0)
  /\ (call.op = "MScriptVar" /\ call.a1 = BA4000000) =>
       /\ call.a2.raised = "none"
       /\ call.a2.raw_value = -(2^26)
       /\ value(call.a2) = Float(FALSE, -(2^26), 0)

(* C19 witness: the token ba8000000 with the space prefix was decoded. *)
C19_Witness ==
  /\ call.op = "MScriptVar"
  /\ call.a1 = BA8000000
  /\ call.a2.raw_value = 0


(* The identifiers of the pieces of a record, read off its text. *)
RecordIds(line) ==
  {Slice(split(Tail(line), ";")[k], 0, 2) :
     k \in 1..Len(split(Tail(line), ";"))}

(* C21: a record without a potential variable (ab or da) or without the   *)
(* current variable (ba) leaves data_points as it was.                    *)
C21_NoPointWithoutBoth ==
  call.op = "parse_data_line" =>
    ((RecordIds(call.a1.line) \cap PotentialIds = {}
        \/ RecordIds(call.a1.line) \cap CurrentIds = {})
       => call.a2.data_points = call.a1.data_points)

(* C21 witness: a well-formed record with a current and no potential was  *)
(* parsed after an earlier point and nothing was appended.                *)
C21_Witness ==
  /\ call.op = "parse_data_line"
  /\ ~raised
  /\ RecordIds(call.a1.line) \cap PotentialIds = {}
  /\ RecordIds(call.a1.line) \cap CurrentIds # {}
  /\ Len(call.a1.data_points) = 1
  /\ call.a2.data_points = call.a1.data_points

(* The pieces of a record line between "P" and the line end. *)
RecordTokens(line) == split(SubSeq(line, 2, Len(line) - 1), ";")

(* C22: decoding a record raises when one of its pieces is shorter than   *)
(* 10 characters, and does not raise the length error when every piece    *)
(* has at least 10 characters.                                            *)
C22_ShortTokenRaises ==
  call.op = "parse_mscript_data_package" =>
    /\ (\E k \in 1..Len(RecordTokens(call.a1)) :
          Len(RecordTokens(call.a1)[k]) < 10) => call.a2.raised # "none"
    /\ (\A k \in 1..Len(RecordTokens(call.a1)) :
          Len(RecordTokens(call.a1)[k]) >= 10)
         => call.a2.raised # "AssertionError"

(* C22 witness: a record whose second piece has 9 characters, after a     *)
(* well-formed first piece, raised the length error.                      *)
C22_Witness ==
  /\ call.op = "parse_mscript_data_package"
  /\ Len(RecordTokens(call.a1)) >= 2
  /\ Len(RecordTokens(call.a1)[1]) >= 10
  /\ Len(RecordTokens(call.a1)[2]) = 9
  /\ call.a2.raised = "AssertionError"


(* ------------------ the pump controller, further claims --------------- *)
MotionCalls ==
  {"initialize", "set_speed", "valve_to", "aspirate_ul", "dispense_ul"}

(* C23: a motion call on a disconnected controller raises and leaves the  *)
(* controller as it was.                                                  *)
C23_DisconnectedMotionFails ==
  [][(~pump.connected /\ call'.op \in MotionCalls)
       => (raised' /\ pump' = pump)]_vars

(* C24: initialize, aspirate_ul and dispense_ul change the plunger        *)
(* position only when their home or move command reached the backend.     *)
C24_MoveOnlyIfDelivered ==
  [][(/\ call'.op \in {"initialize", "aspirate_ul", "dispense_ul"}
      /\ pump'.plunger_steps # pump.plunger_steps)
       => \E k \in 1..Len(sent') : sent'[k].op \in {"Z", "A", "D"}]_vars

(* The commands of a successful move of v volume units: the speed         *)
(* command when a speed is set, then A with the absolute target or D with *)
(* the step delta.                                                        *)
C25_Commands(op, v) ==
  (IF pump.current_speed # NoSpeed
     THEN <<CmdS(pump.current_speed)>> ELSE <<>>)
    \o <<IF op = "aspirate_ul"
            THEN CmdA(pump.plunger_steps + C2_Delta(v))
            ELSE CmdD(C2_Delta(v))>>

(* The lists left of cmds when the driver refuses some of its commands. *)
C25_Delivered(cmds) ==
  {SelectSeq(cmds, LAMBDA c : c.op \in kept) :
     kept \in SUBSET {"S", "A", "D"}}

(* C25: an aspirate_ul or dispense_ul that moves the plunger and returns  *)
(* sends S<current_speed>R (when a speed is set) and then A<old position  *)
(* + delta>R or D<delta>R, and nothing else; a command the real driver    *)
(* refuses is missing from what reached it.                               *)
C25_CommandOrder ==
  [][(/\ call'.op \in {"aspirate_ul", "dispense_ul"}
      /\ ~raised'
      /\ C2_Delta(call'.a1) > 0)
       => /\ sent' \in C25_Delivered(C25_Commands(call'.op, call'.a1))
          /\ pump.backend.kind = "sim"
               => sent' = C25_Commands(call'.op, call'.a1)]_vars

(* C25 witness: an aspirate on a loaded plunger with a speed set sent the *)
(* speed command and then an absolute target above its own step delta.   *)
C25_Witness ==
  /\ call.op = "aspirate_ul"
  /\ ~raised
  /\ Len(sent) = 2
  /\ sent[1] = CmdS(pump.current_speed)
  /\ sent[2] = CmdA(pump.plunger_steps)
  /\ sent[2].arg > C2_Delta(call.a1)
  /\ C2_Delta(call.a1) > 0

(* C26: configure_calibration(s, v) sets steps_per_stroke to max(1, s)    *)
(* and the syringe volume to max(floor, v), and puts the plunger at       *)
(* clamp(round(new_steps * (old_pos / old_steps * old_volume) /           *)
(* new_volume), 0, new_steps); with the calibration it already has, the   *)
(* position stays.                                                        *)
C26_Recalibrated ==
  [][call'.op = "configure_calibration" =>
       LET steps == Max(1, call'.a1)
           volume == Max(SYRINGE_FLOOR, call'.a2)
           position ==
             RoundHalfEven(steps * pump.plunger_steps * pump.syringe_ul,
                           pump.steps_per_stroke * volume)
       IN  /\ pump'.steps_per_stroke = steps
           /\ pump'.syringe_ul = volume
           /\ pump'.plunger_steps = Max(0, Min(position, steps))
           /\ (steps = pump.steps_per_stroke /\ volume = pump.syringe_ul)
                => pump'.plunger_steps = pump.plunger_steps]_vars

(* C26 witness: a loaded plunger sits strictly inside a stroke that a     *)
(* calibration call has just set.                                         *)
C26_Witness ==
  /\ call.op = "configure_calibration"
  /\ pump.steps_per_stroke = call.a1
  /\ pump.syringe_ul = call.a2
  /\ 0 < pump.plunger_steps
  /\ pump.plunger_steps < pump.steps_per_stroke

(* C27: connect and disconnect leave the plunger position alone, and an   *)
(* initialize that returns puts it at 0.                                  *)
C27_PositionPersists ==
  [][/\ call'.op \in {"connect", "disconnect"}
          => pump'.plunger_steps = pump.plunger_steps
     /\ (call'.op = "initialize" /\ ~raised')
          => pump'.plunger_steps = 0]_vars

(* C27 witness: the controller was disconnected with a loaded plunger. *)
C27_Witness ==
  /\ call.op = "disconnect"
  /\ ~pump.connected
  /\ pump.plunger_steps > 0

(* C28: connect on a connected controller keeps the connected flag, the   *)
(* backend, the stored port, baud rate and device id and the plunger      *)
(* position, sends nothing and does not raise; a connect that raises      *)
(* leaves the controller disconnected and without a backend.              *)
C28_ConnectIdempotent ==
  [][call'.op = "connect" =>
       /\ pump.connected =>
            /\ pump'.connected
            /\ pump'.backend = pump.backend
            /\ pump'.com_port = pump.com_port
            /\ pump'.baud = pump.baud
            /\ pump'.dev = pump.dev
            /\ pump'.plunger_steps = pump.plunger_steps
            /\ sent' = <<>>
            /\ ~raised'
       /\ raised' => (~pump'.connected /\ pump'.backend = NoBackend)]_vars

(* C28 witness: a connect asked for another port than the one the         *)
(* connected controller holds.                                            *)
C28_Witness ==
  /\ call.op = "connect"
  /\ pump.connected
  /\ pump.com_port # call.a1


(* The device lines that are sentinels, and the DataPoints of each device *)
(* line, written out by hand.                                             *)
C30_SentinelLines == {"completed", "script_completed"}

C30_Points(name) ==
  IF name = "with_metadata"
    THEN <<DataPoint(Float(FALSE, 0, 0), Float(FALSE, 1, 0))>>
  ELSE IF name = "second_record"
    THEN <<DataPoint(Float(FALSE, 5, -3), Float(FALSE, 2, 0))>>
  ELSE <<>>

(* A round of the read loop of thread t. *)
C30_ReadStep(t) ==
  /\ threads[t].kind = "queue"
  /\ threads[t].pc = "read"
  /\ \/ threads'[t].runner # threads[t].runner
     \/ threads'[t].pc # "read"

(* C30: every round of the read loop puts the DataPoints of the line it   *)
(* read at the end of data_points; a round that reads a sentinel ends the *)
(* loop with success, the item completed and every point saved; no other  *)
(* line ends it as a sentinel, and a runner whose loop has ended reads no *)
(* further line.                                                          *)
C30_InOrderUntilSentinel ==
  [][\A t \in Threads :
       /\ C30_ReadStep(t) =>
            LET r == threads[t].runner
                r2 == threads'[t].runner
            IN  /\ r2.data_points = r.data_points \o C30_Points(r2.line)
                /\ r2.line \in C30_SentinelLines =>
                     /\ r2.exit = "sentinel"
                     /\ threads'[t].pc # "read"
                     /\ r2.wrote = "completed"
                     /\ r2.rows = Len(r2.data_points)
                /\ r2.exit = "sentinel" => r2.line \in C30_SentinelLines
       /\ threads'[t].pc = "read" => threads'[t].runner.exit = "none"]_vars

(* C30 witness: two different records and then the sentinel 'Script       *)
(* completed' were read; the loop has ended with the two points in their  *)
(* order of arrival.                                                      *)
C30_Witness ==
  \E t \in Threads :
    /\ threads[t].runner.exit = "sentinel"
    /\ threads[t].runner.line = "script_completed"
    /\ threads[t].runner.data_points =
         C30_Points("second_record") \o C30_Points("with_metadata")
    /\ threads[t].runner.rows = 2


(* An entry is valid when it is an object with a type and, by type, a     *)
(* pause duration that converts to a number; a pump action name and       *)
(* volume, speed and port that convert where they are given; or a script  *)
(* path.                                                                  *)
C29_Convertible(v) == v.json = "absent" \/ ~float_raises(v)

C29_Valid(raw) ==
  /\ raw.json = "object"
  /\ truthy(raw.type)
  /\ IF raw.type.json = "string" /\ raw.type.s = PAUSE_TEXT
       THEN C29_Convertible(raw.pause_seconds)
     ELSE IF /\ raw.type.json = "string"
             /\ Slice(raw.type.s, 0, 5) = PUMP_PREFIX_TEXT
       THEN /\ raw.pump_action.json = "object"
            /\ truthy(raw.pump_action.name)
            /\ raw.pump_action.params.json = "object" =>
                 /\ C29_Convertible(raw.pump_action.params.volume_ul)
                 /\ C29_Convertible(raw.pump_action.params.speed)
                 /\ C29_Convertible(raw.pump_action.params.port)
     ELSE truthy(raw.script_path)

C29_ValidPositions(items) ==
  SelectSeq([k \in 1..Len(items) |-> k], LAMBDA k : C29_Valid(items[k]))

(* C29: load_queue does not raise; the queue afterwards is the list of    *)
(* the valid entries of the document in their order, and skipped is the   *)
(* number of the other entries.                                           *)
C29_LoadsValidEntries ==
  call.op = "load_queue" =>
    /\ ~raised
    /\ call.a2.taken = C29_ValidPositions(call.a1)
    /\ call.a2.skipped = Len(call.a1) - Len(C29_ValidPositions(call.a1))
    /\ Len(measurement_queue) = Len(C29_ValidPositions(call.a1))
    /\ \A j \in 1..Len(call.a2.taken) :
         /\ measurement_queue[j].type = call.a1[call.a2.taken[j]].type
         /\ measurement_queue[j].status = "pending"


(* C40: on every 7-digit magnitude the legacy parse_emstat_value gives    *)
(* the signed value of MScriptVar.decode_value: 0 at 8000000, negative    *)
(* below it and not negative above it.                                    *)
C40_LegacyAgrees ==
  call.op = "parse_emstat_value" =>
    /\ call.a2 = decode_value(Hex7(call.a1))
    /\ call.a2 = 0 <=> call.a1 = 2^27
    /\ call.a2 < 0 <=> call.a1 < 2^27


(* The pieces of a record that carry a magnitude and a prefix character   *)
(* that is no key of SI_PREFIX_FACTOR.                                    *)
C32_UnknownPrefix(piece) ==
  /\ Len(piece) >= 10
  /\ Slice(piece, 2, 10) # <<" ", " ", " ", " ", " ", "n", "a", "n">>
  /\ piece[10] \notin {"a", "f", "p", "n", "u", "m", " ", "k", "M", "G",
                        "T", "P", "E", "i"}

(* C32: a variable with a prefix outside the table is a decode error      *)
(* whatever its id: its value cannot be taken, and a record holding such  *)
(* a variable gives no DataPoint; the prefixes space and i give the       *)
(* multiplier 1.                                                          *)
C32_UnknownPrefixIsError ==
  /\ call.op = "MScriptVar" =>
       /\ (C32_UnknownPrefix(call.a1) /\ ~raised) => value_raises(call.a2)
       /\ (~raised /\ call.a2.si_prefix \in {" ", "i"}) =>
            /\ ~value_raises(call.a2)
            /\ value(call.a2).e = 0
  /\ call.op = "parse_data_line" =>
       ((\E k \in 1..Len(split(Tail(call.a1.line), ";")) :
           C32_UnknownPrefix(split(Tail(call.a1.line), ";")[k]))
          => call.a2.data_points = call.a1.data_points)


(* C38: with the simulator connected, after a connect, initialize,        *)
(* configure_calibration, aspirate_ul or dispense_ul that returned, the   *)
(* backend holds the controller's plunger position and steps per stroke.  *)
C38_BackendInSync ==
  (/\ pump.connected
   /\ pump.backend.kind = "sim"
   /\ ~raised
   /\ call.op \in {"connect", "initialize", "configure_calibration",
                   "aspirate_ul", "dispense_ul"})
    => /\ pump.backend.plunger_steps = pump.plunger_steps
       /\ pump.backend.steps_per_stroke = pump.steps_per_stroke

(* ------------- claims on repeated and overlapping runs ---------------- *)
(* C34: over runs with no clear_queue and no load_queue, an item whose    *)
(* status is completed, failed or stopped keeps that status in every      *)
(* step: no later run marks it running or executes it again.              *)
C34_TerminalIsFinal ==
  [][\A k \in 1..Len(measurement_queue) :
       (measurement_queue[k].status \in Terminal
        /\ k <= Len(measurement_queue'))
         => measurement_queue'[k].status = measurement_queue[k].status]_vars

(* C35: a thread that ends and clears is_running (the end of              *)
(* execute_queue, the finalize of an immediate run) leaves no other       *)
(* queue worker alive: the flag of a run is cleared only by stop_queue    *)
(* or by that run's own worker.                                           *)
C35_FlagClearedByOwner ==
  [][\A t \in Threads :
       (/\ is_running /\ ~is_running'
        /\ threads[t].kind \in {"queue", "script"}
        /\ threads'[t].kind = "done")
         => \A u \in Threads : threads'[u].kind # "queue"]_vars

(* C36: the live list is never emptied or replaced while a queue worker   *)
(* has an item marked running and its terminal status not yet written.    *)
C36_NoReplaceInsideItem ==
  [][(\E t \in Threads :
        threads[t].kind = "queue" /\ threads[t].pc \in Busy \cup {"read"})
       => \/ Len(measurement_queue') >= Len(measurement_queue)
             /\ \A k \in 1..Len(measurement_queue) :
                  [measurement_queue'[k] EXCEPT !.status = "pending"] =
                  [measurement_queue[k] EXCEPT !.status = "pending"]]_vars

(* ========= the sequencer, a pump queue built by the operator ========== *)
(* The queue is built through the queue_pump_* handlers only, on the      *)
(* connected simulator, and run once.                                     *)
PrecheckVolumes == {PlanVolume, PREFERRED_SYRINGE_UL}

NextPrecheck ==
  \/ Fresh /\ Len(measurement_queue) < MaxDoc /\ queue_pump_init
  \/ Fresh /\ Len(measurement_queue) < MaxDoc
           /\ queue_pump_aspirate(PrecheckVolumes, SeqSpeeds)
  \/ Fresh /\ Len(measurement_queue) < MaxDoc
           /\ queue_pump_dispense(PrecheckVolumes, SeqSpeeds)
  \/ Fresh /\ run_queue
  \/ \E t \in Threads : PlanWorkerStep(t)

SpecPrecheck == InitGui({AutoConnected}) /\ [][NextPrecheck]_vars

(* C33: in a queue built through the enqueue handlers and run once on a   *)
(* connected pump that accepts every command, no ASPIRATE item ends       *)
(* failed: the capacity check of aspirate_ul never rejects an aspirate    *)
(* that the pre-check admitted.                                           *)
C33_AdmittedAspirateFits ==
  \A k \in 1..Len(measurement_queue) :
    measurement_queue[k].type = "PUMP_ASPIRATE"
      => measurement_queue[k].status # "failed"

(* ========== the sequencer, items appended while a run goes on ========= *)
(* The operator appends items at any time, a run in progress included;    *)
(* nobody stops, clears or loads.                                         *)
NextAppend ==
  \/ Len(measurement_queue) < MaxDoc /\ add_pause_to_queue(SeqPauses)
  \/ Len(measurement_queue) < MaxDoc /\ add_to_queue
  \/ run_queue
  \/ \E t \in Threads :
       \/ WorkerBegin(t) \/ WorkerExec(t) \/ WorkerPause(t)
       \/ WorkerSession(t) \/ WorkerFinish(t)

SpecAppend == InitGui({AutoConnected}) /\ [][NextAppend]_vars

(* The item at position k of q, its status left aside. *)
ItemAt(q, k) == [q[k] EXCEPT !.status = "pending"]

(* C37: in every step each item of the live list stays at its index,     *)
(* and a status changes only at the index a queue worker is at, inside    *)
(* that worker's snapshot and on the item the snapshot holds there: an    *)
(* item appended after the snapshot was taken is not touched by that run. *)
C37_AppendsKeepIndices ==
  [][\A k \in 1..Len(measurement_queue) :
       /\ k <= Len(measurement_queue')
       /\ ItemAt(measurement_queue', k) = ItemAt(measurement_queue, k)
       /\ measurement_queue'[k].status # measurement_queue[k].status
            => \E t \in Threads :
                 /\ threads[t].kind = "queue"
                 /\ threads[t].i = k
                 /\ k <= Len(threads[t].snap)
                 /\ threads[t].snap[k] = ItemAt(measurement_queue, k)]_vars

(* C37 witness: a worker has gone through its whole snapshot while two    *)
(* items were appended behind it; the snapshot's item is completed and    *)
(* the appended ones are pending.                                         *)
C37_Witness ==
  \E t \in Threads :
    /\ threads[t].kind = "queue"
    /\ threads[t].pc = "finish"
    /\ Len(threads[t].snap) = 1
    /\ Len(measurement_queue) = 3
    /\ measurement_queue[1].status = "completed"
    /\ measurement_queue[2].status = "pending"
    /\ measurement_queue[3].status = "pending"
    /\ stop_requested = FALSE

(* ============ the sequencer, stopping a run of pump actions =========== *)
NextStopPump ==
  \/ Building /\ queue_pump_aspirate(SeqVolumes, SeqSpeeds)
  \/ Building /\ queue_pump_dispense(SeqVolumes, SeqSpeeds)
  \/ run_queue
  \/ stop_queue
  \/ \E t \in Threads : PlanWorkerStep(t)

SpecStopPump == InitGui({AutoConnected}) /\ [][NextStopPump]_vars

(* The step in which worker t, stopped inside a pump action, ends it. *)
C31_EndsStoppedAction(t) ==
  /\ threads[t].kind = "queue"
  /\ threads[t].pc = "pump_do"
  /\ threads[t].stopAt = threads[t].i
  /\ threads'[t] # threads[t]

(* C31, the action itself: a pump action that a stop request found in     *)
(* flight sends the commands it sends without a stop, moves the plunger   *)
(* the same way and ends completed, or failed when the controller raised. *)
C31_ActionRunsInFull ==
  [][\A t \in Threads :
       C31_EndsStoppedAction(t) =>
         LET th == threads[t]
             r == execute_pump_action(pump, Current(t), [k \in 1..2 |-> TRUE])
         IN  /\ sent' = r.sent
             /\ pump' = r.pump
             /\ raised' = r.raised
             /\ measurement_queue'[th.i].status =
                  (IF r.raised THEN "failed" ELSE "completed")]_vars

(* C31: the action runs in full and the worker begins no later item of    *)
(* its run.                                                               *)
C31_StopDuringPumpAction ==
  [][\A t \in Threads :
       LET th == threads[t]
           th2 == threads'[t]
       IN  (/\ th.kind = "queue" /\ th.stopAt # 0
            /\ th.snap[th.stopAt].type \in PumpTypes)
             => /\ C31_EndsStoppedAction(t) =>
                     measurement_queue'[th.i].status \in {"completed", "failed"}
                /\ ~(th2.kind = "queue" /\ th2.i > th.stopAt
                     /\ th2.pc \in Busy)]_vars

(* ================= the sequencer, every run comes to an end =========== *)
(* The operator appends, runs, stops and clears at any time.  A worker    *)
(* that can take a step takes it in the end: a pause is a bounded sleep   *)
(* loop and a session ends with a sentinel, an abort line or a stop.      *)
LiveStep(t) ==
  \/ WorkerBegin(t) \/ WorkerExec(t) \/ WorkerPause(t)
  \/ WorkerSession(t) \/ WorkerFinish(t)

NextLive ==
  \/ Len(measurement_queue) < MaxQueue /\ add_pause_to_queue(SeqPauses)
  \/ Len(measurement_queue) < MaxQueue /\ add_to_queue
  \/ run_queue
  \/ stop_queue
  \/ clear_queue
  \/ \E t \in Threads : LiveStep(t)

SpecLive ==
  /\ InitGui({AutoConnected})
  /\ [][NextLive]_vars
  /\ \A t \in Threads : WF_vars(LiveStep(t))

(* No item of the live list has status running. *)
C39_NoneRunning(q) == \A k \in 1..Len(q) : q[k].status # "running"

(* C39, the end of the run: every queue worker ends, is_running falls,    *)
(* and once no thread is alive is_running is False and no item is         *)
(* running.                                                               *)
C39_Terminates ==
  /\ \A t \in Threads :
       (threads[t].kind = "queue") ~> (threads[t].kind = "done")
  /\ is_running ~> ~is_running
  /\ []((Idle /\ \E t \in Threads : threads[t].kind = "done")
          => ~is_running /\ C39_NoneRunning(measurement_queue))

(* C39: when execute_queue finishes, is_running is False and every item   *)
(* of the queue is pending, completed, failed or stopped.                 *)
C39_NoneRunningAtFinish ==
  [][\A t \in Threads :
       (threads[t].kind = "queue" /\ threads'[t].kind = "done")
         => C39_NoneRunning(measurement_queue')]_vars

====
